---- MODULE Spec2Model ----
(***************************************************************************)
(* Mesh_Radio_Flasher: the SWD/DAP transaction layer, the nRF52 NVMC flash *)
(* engine, the Intel HEX upload path and the BLE central, as state          *)
(* machines.                                                               *)
(*                                                                         *)
(* The specifications share the variables:                                 *)
(*   SpecDap     swd_core.c  : DP/AP operations with ACK-based retry       *)
(*   SpecRaw     swd_core.c  : swd_transfer_raw, read data and parity      *)
(*   SpecLink    swd_core.c  : connect, power-up, disconnect, is_connected *)
(*   SpecFlash   swd_flash.c : page erase, word/buffer program, mass erase *)
(*   SpecEraseTwice swd_flash.c : two page erases in succession            *)
(*   SpecUnlock  swd_flash.c : CTRL-AP erase-all and its poll budget       *)
(*   SpecUpload  web_handlers.c : HEX upload, coalescing buffer, flush;    *)
(*               swd_flash.c : swd_flash_update_firmware                   *)
(*   SpecBle     ble_connection.c : BLE central connect/disconnect, events *)
(*   SpecTcp     tcp_proxy.c : proxy task, client set, start and stop      *)
(*   SpecSend    ble_connection.c : ble_proxy_send_data next to the events *)
(*   SpecConn    GAP event handler with conn_state : the connection phases *)
(*   SpecTurn    swd_core.c : SWDIO ownership within a raw transaction     *)
(* Each leaves the other layers' variables unchanged.                      *)
(***************************************************************************)
EXTENDS Integers, Sequences, FiniteSets, TLC

VARIABLES
    \* ---- swd_core.c ----
    initialized,     \* static bool initialized
    dap_stack,       \* activation records of the running DAP operation, innermost last
    dap_result,      \* esp_err_t returned by the last finished top-level DAP operation
    sticky,          \* target: a sticky error flag is set in CTRL/STAT
    stale_seen,      \* history: a transaction other than the ABORT write was issued while sticky
    \* ---- swd_flash.c and the NVMC ----
    nvmc_config,     \* target: NVMC CONFIG register (REN/WEN/EEN)
    flash,           \* target: flash words that are not erased, word address -> 4 bytes
    fl,              \* the running flash operation: function, position, locals
    last_cfg,        \* history: mode of the last CONFIG write the operation issued ("none")
    nvmc_touch,      \* history: number of NVMC/flash accesses the operation issued
    \* ---- web_handlers.c ----
    up,              \* upload_context_t and the position of upload_post_handler
    page_buffer,     \* ctx->page_buffer, offset -> byte; offsets not in the domain hold 0xFF
    upper_linear_addr, \* HEX parser: upper 16 address bits of the last type-04 record
    flash_ops,       \* history: the erase/program calls issued, in order
    \* ---- CTRL-AP unlock (swd_flash.c) ----
    un,              \* the running unlock: function, position, locals; target erase time
    \* ---- data path of the DAP layer (swd_core.c) ----
    wire,            \* target RDBUFF, the caller's data word, history of the running operation
    raw,             \* swd_transfer_raw, read: the bits received, the caller's data word, the ACK returned
    \* ---- target session (swd_core.c) ----
    connected,       \* static bool connected
    lk,              \* target DP/AP registers, the last session call and its result, history
    \* ---- BLE central (ble_connection.c) ----
    ble,             \* current_conn.state/.conn_handle, s_state, uart context, TCP proxy task
    host,            \* BLE host stack: connect procedure in progress, connections, terminations
    callers,         \* per task: position in ble_proxy_connect, entry state and result of its last call
    bh,              \* history: overlapping ble_gap_connect, the last GAP event and the state before it
    \* ---- TCP proxy (tcp_proxy.c) ----
    tcp,             \* proxy_running, tcp_task_handle, server_sock, clients[], clients_mutex
    tk,              \* position and locals of tcp_task and of the BLE host task; sockets, mutex holder
    th,              \* history: what the last step of the proxy did
    \* ---- BLE connection phases (conn_state of the GAP event handler) ----
    cs,              \* conn_state, the uart context flags, the proxy started; the last event
    \* ---- the SWDIO line during a raw transaction ----
    ln               \* drive_phase, the pin's output enable, the critical section, the wire

dapVars    == <<initialized, dap_stack, dap_result, sticky, stale_seen>>
flashVars  == <<nvmc_config, flash, fl, last_cfg, nvmc_touch>>
uploadVars == <<up, page_buffer, upper_linear_addr, flash_ops>>
coreVars   == <<dapVars, flashVars, uploadVars>>
linkVars   == <<connected, lk>>
bleVars    == <<ble, host, callers, bh>>
tcpVars    == <<tcp, tk, th>>
moreVars   == <<un, wire, raw, linkVars, bleVars, tcpVars, cs, ln>>
exceptUn   == <<coreVars, wire, raw, linkVars, bleVars, tcpVars, cs, ln>>
exceptWire == <<un, raw, linkVars, bleVars, tcpVars, cs, ln>>
exceptRaw  == <<coreVars, un, wire, linkVars, bleVars, tcpVars, cs, ln>>
exceptLink == <<dap_stack, dap_result, sticky, stale_seen, flashVars, uploadVars,
                un, wire, raw, bleVars, tcpVars, cs, ln>>
exceptBle  == <<coreVars, un, wire, raw, linkVars, tcpVars, cs, ln>>
exceptTcp  == <<coreVars, un, wire, raw, linkVars, bleVars, cs, ln>>
exceptConn == <<coreVars, un, wire, raw, linkVars, bleVars, tcpVars, ln>>
exceptLine == <<coreVars, un, wire, raw, linkVars, bleVars, tcpVars, cs>>
vars       == <<coreVars, moreVars>>

(***************************************************************************)
(* Bounds of the model                                                     *)
(***************************************************************************)
\* Deepest nesting of DAP activations the model follows (the C stack is finite).
DapDepth == 3

(***************************************************************************)
(* swd_core.c : DAP transaction layer                                      *)
(***************************************************************************)
\* Retry budget of every DAP operation: for (retry = 0; retry < 10; retry++)
DAP_RETRIES == 10

\* Value swd_clear_errors writes to DP ABORT
ABORT_CLEAR == 30

\* What one raw transaction can hand back: the three ACK bits as sampled
\* (OK, WAIT, FAULT, or any other pattern, e.g. an undriven line), and for a
\* read answered OK a parity mismatch, which swd_transfer_raw reports as FAULT.
AckOutcomes(read) ==
    {"OK", "WAIT", "FAULT", "NOACK"} \cup (IF read THEN {"PARITY"} ELSE {})

\* The ACK value swd_transfer_raw returns for an outcome.
swd_transfer_raw(outcome) ==
    IF outcome = "PARITY" THEN "FAULT" ELSE outcome

Frame(fn, addr, data, via) ==
    [fn |-> fn, addr |-> addr, data |-> data, retry |-> 0, pc |-> "loop", via |-> via]

IsRead(fn) == fn \in {"swd_dp_read", "swd_ap_read"}

\* What the target holds and what the caller of the running operation holds,
\* as tags: the name of the register a value was read from, "posted" for the
\* result of an AP read made before the running operation began, "none" for
\* nothing yet.  ap_data is the word the AP read transaction itself stored in
\* the caller's data word, order records the AP-read / RDBUFF-read sequence on the wire,
\* parity_run the number of read attempts in a row whose parity check failed.
IdleWire ==
    [fn |-> "none", addr |-> "none", rdbuff |-> "none", data |-> "none",
     ap_data |-> "none", order |-> "none", parity_run |-> 0]

\* The operations a caller may start: function, register, data word.
DapCalls ==
    {<<"swd_dp_read", "CTRL_STAT", 0>>, <<"swd_dp_write", "SELECT", 0>>,
     <<"swd_dp_write", "ABORT", ABORT_CLEAR>>,
     <<"swd_ap_read", "DRW", 0>>, <<"swd_ap_write", "TAR", 0>>}

\* An activation returns val: its caller either ignores the value and goes on
\* with its retry loop (the call was swd_clear_errors), or returns it in turn
\* (swd_ap_read: return swd_dp_read(DP_RDBUFF, data)).
RECURSIVE Unwind(_, _)
Unwind(stack, val) ==
    LET rest == SubSeq(stack, 1, Len(stack) - 1) IN
    IF rest = << >> THEN [stack |-> << >>, result |-> val]
    ELSE LET caller == rest[Len(rest)] IN
         IF caller.pc = "tail" THEN Unwind(rest, val)
         ELSE [stack |-> [rest EXCEPT ![Len(rest)].retry = @ + 1,
                                      ![Len(rest)].pc = "loop"],
               result |-> "running"]

\* swd_init
swd_init ==
    /\ ~initialized
    /\ dap_stack = << >>
    /\ initialized' = TRUE
    /\ connected' = FALSE
    /\ UNCHANGED <<dap_stack, dap_result, sticky, stale_seen, flashVars, uploadVars,
                   un, wire, raw, lk, bleVars, tcpVars, cs, ln>>

\* Entry of swd_dp_read / swd_dp_write / swd_ap_read / swd_ap_write
DapCall ==
    /\ dap_stack = << >>
    /\ \E c \in DapCalls :
         IF ~initialized
         THEN /\ dap_result' = "ESP_ERR_INVALID_STATE"
              /\ UNCHANGED dap_stack
              /\ UNCHANGED wire
         ELSE /\ dap_stack' = <<Frame(c[1], c[2], c[3], "caller")>>
              /\ dap_result' = "running"
              /\ wire' = [IdleWire EXCEPT
                            !.fn = c[1], !.addr = c[2],
                            !.rdbuff = IF wire.rdbuff = "none" THEN "none" ELSE "posted"]
    /\ UNCHANGED <<initialized, sticky, stale_seen, flashVars, uploadVars, exceptWire>>

IsApAccess(fn) == fn \in {"swd_ap_read", "swd_ap_write"}

\* The data side of one raw transaction of frame f with the given outcome.
\* The target answers an AP read with the result posted by the AP read before
\* it and posts the new result in RDBUFF; a read of RDBUFF returns what is
\* posted.  swd_transfer_raw stores the word only when the ACK is OK and the
\* parity bit matches (*data = value).
RawData(f, outcome, w) ==
    LET value == IF f.fn = "swd_ap_read" \/ f.addr = "RDBUFF"
                 THEN w.rdbuff ELSE f.addr IN
    [w EXCEPT
       !.data = IF IsRead(f.fn) /\ outcome = "OK" THEN value ELSE @,
       !.ap_data = IF f.fn = "swd_ap_read" /\ outcome = "OK" THEN value ELSE @,
       !.rdbuff = IF f.fn = "swd_ap_read" /\ outcome \in {"OK", "PARITY"}
                  THEN f.addr ELSE @,
       !.order = IF IsApAccess(f.fn) THEN "ap"
                 ELSE IF f.addr = "RDBUFF" /\ outcome = "OK" /\ @ = "ap"
                      THEN "ap-rdbuff" ELSE @,
       !.parity_run = IF ~IsRead(f.fn) THEN @
                      ELSE IF outcome # "PARITY" THEN 0
                      ELSE IF @ >= 2 THEN 2 ELSE @ + 1]

\* swd_ap_read, ACK OK: the posted result is not what the caller gets.
ApReadReturnsPosted(stack) ==
    Unwind(stack, "ESP_OK")

\* swd_ap_read, ACK OK: return swd_dp_read(DP_RDBUFF, data)
ApReadFetch(stack) ==
    [stack |-> Append([stack EXCEPT ![Len(stack)].pc = "tail"],
                      Frame("swd_dp_read", "RDBUFF", 0, "swd_ap_read")),
     result |-> "running"]

IsAbortWrite(f) == f.fn = "swd_dp_write" /\ f.addr = "ABORT" /\ f.data = ABORT_CLEAR

\* One pass of the retry loop: one raw transaction and the branch on its ACK.
DapAttempt ==
    /\ dap_stack # << >>
    /\ LET n == Len(dap_stack)
           f == dap_stack[n] IN
       /\ f.pc = "loop"
       /\ f.retry < DAP_RETRIES
       /\ \E outcome \in AckOutcomes(IsRead(f.fn)) :
            LET ack == swd_transfer_raw(outcome) IN
            /\ stale_seen' = (stale_seen \/ (sticky /\ ~IsAbortWrite(f)))
            /\ sticky' = IF outcome = "FAULT" THEN TRUE
                         ELSE IF outcome = "OK" /\ IsAbortWrite(f) THEN FALSE
                         ELSE sticky
            /\ wire' = RawData(f, outcome, wire)
            /\ CASE ack = "OK" /\ f.fn = "swd_ap_read" ->
                      LET u == ApReadFetch(dap_stack) IN
                      /\ dap_stack' = u.stack
                      /\ dap_result' = u.result
                 [] ack = "OK" /\ f.fn # "swd_ap_read" ->
                      LET u == Unwind(dap_stack, "ESP_OK") IN
                      /\ dap_stack' = u.stack
                      /\ dap_result' = u.result
                 [] ack = "FAULT" ->
                      \* swd_clear_errors(): swd_dp_write(DP_ABORT, 0x1E)
                      /\ n < DapDepth
                      /\ dap_stack' = Append([dap_stack EXCEPT ![n].pc = "clear"],
                                             Frame("swd_dp_write", "ABORT", ABORT_CLEAR,
                                                   "swd_clear_errors"))
                      /\ UNCHANGED dap_result
                 [] OTHER ->
                      \* WAIT: vTaskDelay(1); any other ACK: next pass
                      /\ dap_stack' = [dap_stack EXCEPT ![n].retry = @ + 1]
                      /\ UNCHANGED dap_result
    /\ UNCHANGED <<initialized, flashVars, uploadVars, exceptWire>>

\* The retry loop ran out: return ESP_FAIL
DapExhausted ==
    /\ dap_stack # << >>
    /\ LET f == dap_stack[Len(dap_stack)] IN
       /\ f.pc = "loop"
       /\ f.retry >= DAP_RETRIES
       /\ LET u == Unwind(dap_stack, "ESP_FAIL") IN
          /\ dap_stack' = u.stack
          /\ dap_result' = u.result
    /\ UNCHANGED <<initialized, sticky, stale_seen, flashVars, uploadVars, moreVars>>

(***************************************************************************)
(* Target memory as the flash engine sees it through swd_mem_read32 and    *)
(* swd_mem_write32: nRF52840 flash and the NVMC registers.                 *)
(***************************************************************************)
NRF52_FLASH_SIZE == 1048576
NRF52_FLASH_PAGE_SIZE == 4096
NVMC_CONFIG_REN == 0
NVMC_CONFIG_WEN == 1
NVMC_CONFIG_EEN == 2

ERASED_BYTE == 255
ERASED_WORD == <<ERASED_BYTE, ERASED_BYTE, ERASED_BYTE, ERASED_BYTE>>

\* Bitwise AND of two bytes: programming flash can only clear bits.
RECURSIVE BitAnd(_, _)
BitAnd(a, b) ==
    IF a = 0 \/ b = 0 THEN 0
    ELSE (a % 2) * (b % 2) + 2 * BitAnd(a \div 2, b \div 2)

WordAnd(v, w) == [k \in 1..4 |-> BitAnd(v[k], w[k])]

\* addr & ~(NRF52_FLASH_PAGE_SIZE - 1), addr & ~0x3, addr & 0x3
PageBase(addr) == addr - (addr % NRF52_FLASH_PAGE_SIZE)
WordBase(addr) == addr - (addr % 4)
ByteLane(addr) == addr % 4

\* The 32-bit word the target holds at a word-aligned flash address.
MemWord(mem, wa) == IF wa \in DOMAIN mem THEN mem[wa] ELSE ERASED_WORD

\* The byte the target holds at a flash address (little-endian lanes).
MemByte(mem, a) == MemWord(mem, WordBase(a))[ByteLane(a) + 1]

\* Flash contents with the word at wa set to w (erased words are not stored).
MemSet(mem, wa, w) ==
    IF w = ERASED_WORD
    THEN [x \in DOMAIN mem \ {wa} |-> mem[x]]
    ELSE [x \in DOMAIN mem \cup {wa} |-> IF x = wa THEN w ELSE mem[x]]

\* NVMC: a word write to flash programs it only in write-enable mode, and
\* only clears bits.
NvmcProgram(mem, config, wa, w) ==
    IF config = NVMC_CONFIG_WEN /\ wa < NRF52_FLASH_SIZE
    THEN MemSet(mem, wa, WordAnd(MemWord(mem, wa), w))
    ELSE mem

\* NVMC: a write to ERASEPAGE in erase-enable mode erases the page, unless
\* the erase does not take effect (a protected region, a supply dip): the
\* case the engine's read-back after the erase is there to catch.
NvmcErasePage(mem, config, page, effective) ==
    IF config = NVMC_CONFIG_EEN /\ effective
    THEN [x \in {y \in DOMAIN mem : PageBase(y) # PageBase(page)} |-> mem[x]]
    ELSE mem

\* NVMC: ERASEALL in erase-enable mode erases the whole code flash.
NvmcEraseAll(mem, config) ==
    IF config = NVMC_CONFIG_EEN THEN [x \in {} |-> ERASED_WORD] ELSE mem

\* swd_mem_read32 / swd_mem_write32 return ESP_OK or fail.
MemAccessOutcomes == {"ok", "fail"}

(***************************************************************************)
(* swd_flash.c : NVMC flash engine                                         *)
(***************************************************************************)
\* Most passes of wait_nvmc_ready's loop the model follows before the tick
\* clock reaches the timeout.
WaitPolls == 4

\* Longest buffer handed to swd_flash_write_buffer.
MaxWrite == 6

\* A long buffer: more than 64 words, with a tail.
LongWrite == 265

\* The batch of the aligned body: a READY poll every 256 bytes, 64 words.
BatchWords == 64

\* Page erase: initial delay, total budget and poll interval, in ms.
ERASE_PREDELAY_MS == 90
ERASE_TIMEOUT_MS == 400
ERASE_POLL_MS == 10
\* Word program: poll budget in ms.
WORD_TIMEOUT_MS == 50

\* The page under test, and what the flash may hold before an operation.
TestPage == NRF52_FLASH_PAGE_SIZE
ZERO_WORD == <<0, 0, 0, 0>>
EmptyMem == [x \in {} |-> ERASED_WORD]
FlashImages ==
    {EmptyMem,
     [x \in {TestPage + 12} |-> ZERO_WORD],
     [x \in {TestPage + NRF52_FLASH_PAGE_SIZE - 4} |-> ZERO_WORD],
     [x \in {TestPage + 4} |-> <<240, 15, 255, 0>>]}

EraseAddrs == {TestPage, TestPage + 2052, NRF52_FLASH_SIZE}
WriteAddrs == {TestPage + k : k \in 0..3}
WordAddrs  == {TestPage + 8, TestPage + 2}
\* Buffer sizes: every short one, and one of more than 64 words.
WriteSizes == (0..MaxWrite) \cup {LongWrite}
\* Source bytes b[0..n): distinct, none erased-looking.
DataBytes(n) == [k \in 1..n |-> 160 + (k % 64)]

IdleOp ==
    [fn |-> "none", pc |-> "idle", ret |-> "ESP_OK",
     a0 |-> 0, d0 |-> << >>, mem0 |-> EmptyMem,
     addr |-> 0, data |-> << >>, size |-> 0, written |-> 0, word |-> ERASED_WORD,
     i |-> 0, elapsed |-> 0,
     wk |-> 0, wl |-> 0, ws |-> 0, wpc |-> "idle",
     unpolled |-> 0,
     calls |-> 0, first |-> [page |-> 0, mem |-> EmptyMem, config |-> NVMC_CONFIG_REN]]

Ret(f, val) == [f EXCEPT !.pc = "done", !.ret = val]

\* Call wait_nvmc_ready; the caller goes on at `back` with the result in ret.
\* unpolled (history): the words of the aligned body written since READY was
\* last polled.
StartWait(f, back) ==
    [f EXCEPT !.pc = "wait", !.wk = 0, !.wl = 0, !.ws = 0, !.wpc = back, !.unpolled = 0]

FlashStep(f, c, m, l, t) ==
    /\ fl' = f
    /\ nvmc_config' = c
    /\ flash' = m
    /\ last_cfg' = l
    /\ nvmc_touch' = t
    /\ UNCHANGED <<dapVars, uploadVars, moreVars>>

\* A read of NVMC READY fails, or returns the register: busy (0) or ready (1).
ReadyOutcomes == {"fail", "busy", "ready"}
ReadyWord(o) == IF o = "ready" THEN 1 ELSE 0

\* wait_nvmc_ready: poll READY until it reads ready, unchanged, on two
\* consecutive passes after the first, or until the tick clock runs out.
wait_nvmc_ready ==
    \/ /\ fl.pc = "wait"
       /\ fl.wk > 0
       /\ FlashStep([fl EXCEPT !.pc = fl.wpc, !.ret = "ESP_ERR_TIMEOUT"],
                    nvmc_config, flash, last_cfg, nvmc_touch)
    \/ /\ fl.pc = "wait"
       /\ fl.wk < WaitPolls
       /\ \E o \in ReadyOutcomes :
               LET ready == ReadyWord(o)
                   f1 == [fl EXCEPT !.wk = @ + 1, !.wl = ready]
                   f2 == IF o = "fail"
                         THEN [fl EXCEPT !.pc = fl.wpc, !.ret = "ESP_FAIL"]
                         ELSE IF ready % 2 = 1
                         THEN IF fl.wl = ready
                              THEN IF fl.ws + 1 >= 2
                                   THEN [fl EXCEPT !.pc = fl.wpc, !.ret = "ESP_OK"]
                                   ELSE [f1 EXCEPT !.ws = @ + 1]
                              ELSE [f1 EXCEPT !.ws = 0]
                         ELSE [f1 EXCEPT !.ws = 0]
               IN FlashStep(f2, nvmc_config, flash, last_cfg, nvmc_touch + 1)

\* set_nvmc_config(mode): write CONFIG, read it back, compare. The write or
\* the read may fail; the register may not have taken the mode.
CfgOutcomes(mode) ==
    {"ok", "wfail", "rfail"} \cup (IF nvmc_config # mode THEN {"mismatch"} ELSE {})

ModeName(mode) ==
    CASE mode = NVMC_CONFIG_REN -> "REN"
      [] mode = NVMC_CONFIG_WEN -> "WEN"
      [] mode = NVMC_CONFIG_EEN -> "EEN"

\* The result, the CONFIG register afterwards, and the history: last_cfg is
\* the mode CONFIG was left holding by the operation's last write of it; a
\* write of REN counts as issued even when it is not acknowledged.
set_nvmc_config(mode, o) ==
    [ret    |-> IF o = "ok" THEN "ESP_OK" ELSE "ESP_FAIL",
     config |-> IF o \in {"ok", "rfail"} THEN mode ELSE nvmc_config,
     last   |-> IF mode = NVMC_CONFIG_REN THEN "REN"
                ELSE IF o \in {"ok", "rfail"} THEN ModeName(mode) ELSE last_cfg,
     touch  |-> nvmc_touch + (IF o = "wfail" THEN 1 ELSE 2)]

\* cleanup: set_nvmc_config(NVMC_CONFIG_REN); return ret;
Cleanup ==
    \E o \in CfgOutcomes(NVMC_CONFIG_REN) :
        LET r == set_nvmc_config(NVMC_CONFIG_REN, o) IN
        FlashStep(Ret(fl, fl.ret), r.config, flash, r.last, r.touch)

VerifyOffsetsShort == <<0, 4, 8, 8>>

\* The offsets of the page that the erase reads back.
VerifyOffsets == <<0, 4, 8, NRF52_FLASH_PAGE_SIZE - 4>>

\* swd_flash_erase_page: addr &= ~(NRF52_FLASH_PAGE_SIZE - 1)
AlignToPageNone(addr) == addr
AlignToPage(addr) == PageBase(addr)

\* swd_flash_erase_page(addr)
swd_flash_erase_page ==
    \/ /\ fl.pc = "idle"
       /\ \E a \in EraseAddrs :
            LET f == [fl EXCEPT !.fn = "swd_flash_erase_page", !.a0 = a, !.mem0 = flash] IN
            FlashStep(IF a >= NRF52_FLASH_SIZE
                      THEN Ret(f, "ESP_ERR_INVALID_ARG")
                      ELSE StartWait([f EXCEPT !.addr = AlignToPage(a)], "e_setcfg"),
                      nvmc_config, flash, last_cfg, nvmc_touch)
    \/ /\ fl.pc = "e_setcfg"
       /\ IF fl.ret # "ESP_OK"
          THEN FlashStep(Ret(fl, fl.ret), nvmc_config, flash, last_cfg, nvmc_touch)
          ELSE \E o \in CfgOutcomes(NVMC_CONFIG_EEN) :
                 LET r == set_nvmc_config(NVMC_CONFIG_EEN, o) IN
                 FlashStep(IF r.ret # "ESP_OK" THEN Ret(fl, r.ret)
                           ELSE [fl EXCEPT !.pc = "e_check"],
                           r.config, flash, r.last, r.touch)
    \/ /\ fl.pc = "e_check"
       /\ \E o \in MemAccessOutcomes :
            IF o = "fail" \/ nvmc_config # NVMC_CONFIG_EEN
            THEN \E o2 \in CfgOutcomes(NVMC_CONFIG_REN) :
                   LET r == set_nvmc_config(NVMC_CONFIG_REN, o2) IN
                   FlashStep(Ret(fl, "ESP_FAIL"), r.config, flash, r.last, r.touch + 1)
            ELSE FlashStep([fl EXCEPT !.pc = "e_trigger"],
                           nvmc_config, flash, last_cfg, nvmc_touch + 1)
    \/ /\ fl.pc = "e_trigger"
       /\ \E o \in MemAccessOutcomes, effective \in BOOLEAN :
            IF o = "fail"
            THEN /\ effective
                 /\ FlashStep([fl EXCEPT !.pc = "e_cleanup", !.ret = "ESP_FAIL"],
                              nvmc_config, flash, last_cfg, nvmc_touch + 1)
            ELSE FlashStep([fl EXCEPT !.pc = "e_poll", !.elapsed = ERASE_PREDELAY_MS],
                           nvmc_config,
                           NvmcErasePage(flash, nvmc_config, fl.addr, effective),
                           last_cfg, nvmc_touch + 1)
    \/ /\ fl.pc = "e_poll"
       /\ IF fl.elapsed >= ERASE_TIMEOUT_MS
          THEN FlashStep([fl EXCEPT !.pc = "e_cleanup", !.ret = "ESP_ERR_TIMEOUT"],
                         nvmc_config, flash, last_cfg, nvmc_touch)
          ELSE \E o \in ReadyOutcomes :
                 FlashStep(CASE o = "fail" ->
                                  [fl EXCEPT !.pc = "e_cleanup", !.ret = "ESP_FAIL"]
                             [] o = "ready" -> [fl EXCEPT !.pc = "e_ren"]
                             [] OTHER -> [fl EXCEPT !.elapsed = @ + ERASE_POLL_MS],
                           nvmc_config, flash, last_cfg, nvmc_touch + 1)
    \/ /\ fl.pc = "e_ren"
       /\ \E o \in CfgOutcomes(NVMC_CONFIG_REN) :
            LET r == set_nvmc_config(NVMC_CONFIG_REN, o) IN
            FlashStep(IF r.ret # "ESP_OK"
                      THEN [fl EXCEPT !.pc = "e_cleanup", !.ret = r.ret]
                      ELSE [fl EXCEPT !.pc = "e_verify", !.i = 1],
                      r.config, flash, r.last, r.touch)
    \/ /\ fl.pc \in {"e_verify", "e_reread"}
       /\ \E o \in MemAccessOutcomes :
            LET sample == MemWord(flash, fl.addr + VerifyOffsets[fl.i]) IN
            FlashStep(CASE o = "fail" ->
                             [fl EXCEPT !.pc = "e_cleanup", !.ret = "ESP_FAIL"]
                        [] o = "ok" /\ sample # ERASED_WORD /\ fl.pc = "e_verify" ->
                             [fl EXCEPT !.pc = "e_reread"]
                        [] o = "ok" /\ sample # ERASED_WORD /\ fl.pc = "e_reread" ->
                             [fl EXCEPT !.pc = "e_cleanup", !.ret = "ESP_FAIL"]
                        [] OTHER ->
                             IF fl.i = Len(VerifyOffsets)
                             THEN Ret(fl, "ESP_OK")
                             ELSE [fl EXCEPT !.pc = "e_verify", !.i = @ + 1],
                      nvmc_config, flash, last_cfg, nvmc_touch + 1)
    \/ /\ fl.pc = "e_cleanup"
       /\ Cleanup

\* swd_flash_write_word(addr, data)
swd_flash_write_word ==
    \/ /\ fl.pc = "idle"
       /\ \E a \in WordAddrs :
            LET f == [fl EXCEPT !.fn = "swd_flash_write_word", !.a0 = a, !.mem0 = flash,
                                !.addr = a, !.d0 = DataBytes(4), !.word = DataBytes(4)] IN
            FlashStep(IF a % 4 # 0 THEN Ret(f, "ESP_ERR_INVALID_ARG")
                      ELSE [f EXCEPT !.pc = "ww_setcfg"],
                      nvmc_config, flash, last_cfg, nvmc_touch)
    \/ /\ fl.pc = "ww_setcfg"
       /\ \E o \in CfgOutcomes(NVMC_CONFIG_WEN) :
            LET r == set_nvmc_config(NVMC_CONFIG_WEN, o) IN
            FlashStep(IF r.ret # "ESP_OK" THEN Ret(fl, r.ret)
                      ELSE [fl EXCEPT !.pc = "ww_write"],
                      r.config, flash, r.last, r.touch)
    \/ /\ fl.pc = "ww_write"
       /\ \E o \in MemAccessOutcomes :
            IF o = "fail"
            THEN FlashStep([fl EXCEPT !.pc = "ww_cleanup", !.ret = "ESP_FAIL"],
                           nvmc_config, flash, last_cfg, nvmc_touch + 1)
            ELSE FlashStep([fl EXCEPT !.pc = "ww_poll", !.elapsed = 0],
                           nvmc_config,
                           NvmcProgram(flash, nvmc_config, fl.addr, fl.word),
                           last_cfg, nvmc_touch + 1)
    \/ /\ fl.pc = "ww_poll"
       /\ IF fl.elapsed >= WORD_TIMEOUT_MS
          THEN FlashStep([fl EXCEPT !.pc = "ww_cleanup", !.ret = "ESP_ERR_TIMEOUT"],
                         nvmc_config, flash, last_cfg, nvmc_touch)
          ELSE \E o \in ReadyOutcomes :
                 FlashStep(CASE o = "fail" ->
                                  [fl EXCEPT !.pc = "ww_cleanup", !.ret = "ESP_FAIL"]
                             [] o = "ready" -> [fl EXCEPT !.pc = "ww_cleanup"]
                             [] OTHER -> [fl EXCEPT !.elapsed = @ + 1],
                           nvmc_config, flash, last_cfg, nvmc_touch + 1)
    \/ /\ fl.pc = "ww_cleanup"
       /\ Cleanup

WriteBufferArgsUnchecked(size) == FALSE

\* if (!data || size == 0) return ESP_ERR_INVALID_ARG;
WriteBufferArgsInvalid(size) == size = 0

PatchBytesNoOffset(word, offset, data, n) ==
    [k \in 1..4 |-> IF k <= n THEN data[k] ELSE word[k]]

\* word_bytes[offset + i] = data[i] for i < n
PatchBytes(word, offset, data, n) ==
    [k \in 1..4 |-> IF k > offset /\ k <= offset + n THEN data[k - offset] ELSE word[k]]

Min(a, b) == IF a < b THEN a ELSE b

\* addr += n; data += n; written += n; size -= n;
Advance(f, n) ==
    [f EXCEPT !.addr = @ + n, !.data = SubSeq(@, n + 1, Len(@)),
              !.written = @ + n, !.size = @ - n]

\* Where swd_flash_write_buffer goes on once the words before are done:
\* the aligned body while size >= 4, then the tail, then cleanup.
BufferNext(f) ==
    [f EXCEPT !.pc = IF f.size >= 4 THEN "wb_body"
                     ELSE IF f.size > 0 THEN "wb_tail" ELSE "wb_cleanup"]

\* swd_flash_write_buffer(addr, data, size, progress)
swd_flash_write_buffer ==
    \/ /\ fl.pc = "idle"
       /\ \E a \in WriteAddrs, n \in WriteSizes :
            LET f == [fl EXCEPT !.fn = "swd_flash_write_buffer", !.a0 = a, !.mem0 = flash,
                                !.d0 = DataBytes(n), !.addr = a, !.data = DataBytes(n),
                                !.size = n, !.written = 0] IN
            FlashStep(IF WriteBufferArgsInvalid(n) THEN Ret(f, "ESP_ERR_INVALID_ARG")
                      ELSE [f EXCEPT !.pc = "wb_setcfg"],
                      nvmc_config, flash, last_cfg, nvmc_touch)
    \/ /\ fl.pc = "wb_setcfg"
       /\ \E o \in CfgOutcomes(NVMC_CONFIG_WEN) :
            LET r == set_nvmc_config(NVMC_CONFIG_WEN, o) IN
            FlashStep(IF r.ret # "ESP_OK" THEN Ret(fl, r.ret)
                      ELSE IF ByteLane(fl.addr) # 0
                      THEN [fl EXCEPT !.pc = "wb_pre_read"]
                      ELSE BufferNext(fl),
                      r.config, flash, r.last, r.touch)
    \/ /\ fl.pc = "wb_pre_read"
       /\ \E o \in MemAccessOutcomes :
            FlashStep(IF o = "fail"
                      THEN [fl EXCEPT !.pc = "wb_cleanup", !.ret = "ESP_FAIL"]
                      ELSE [fl EXCEPT !.pc = "wb_pre_write",
                                      !.word = PatchBytes(
                                          MemWord(flash, WordBase(fl.addr)),
                                          ByteLane(fl.addr), fl.data,
                                          Min(4 - ByteLane(fl.addr), fl.size))],
                      nvmc_config, flash, last_cfg, nvmc_touch + 1)
    \/ /\ fl.pc = "wb_pre_write"
       /\ \E o \in MemAccessOutcomes :
            IF o = "fail"
            THEN FlashStep([fl EXCEPT !.pc = "wb_cleanup", !.ret = "ESP_FAIL"],
                           nvmc_config, flash, last_cfg, nvmc_touch + 1)
            ELSE FlashStep(StartWait(fl, "wb_pre_adv"), nvmc_config,
                           NvmcProgram(flash, nvmc_config, WordBase(fl.addr), fl.word),
                           last_cfg, nvmc_touch + 1)
    \/ /\ fl.pc = "wb_pre_adv"
       /\ FlashStep(IF fl.ret # "ESP_OK" THEN [fl EXCEPT !.pc = "wb_cleanup"]
                    ELSE BufferNext(Advance(fl, Min(4 - ByteLane(fl.addr), fl.size))),
                    nvmc_config, flash, last_cfg, nvmc_touch)
    \/ /\ fl.pc = "wb_body"
       /\ \E o \in MemAccessOutcomes :
            IF o = "fail"
            THEN FlashStep([fl EXCEPT !.pc = "wb_cleanup", !.ret = "ESP_FAIL"],
                           nvmc_config, flash, last_cfg, nvmc_touch + 1)
            ELSE FlashStep(IF fl.written % 256 = 252 \/ fl.size = 4
                           THEN StartWait(fl, "wb_body_adv")
                           ELSE BufferNext(Advance([fl EXCEPT !.unpolled = @ + 1], 4)),
                           nvmc_config,
                           NvmcProgram(flash, nvmc_config, fl.addr,
                                       SubSeq(fl.data, 1, 4)),
                           last_cfg, nvmc_touch + 1)
    \/ /\ fl.pc = "wb_body_adv"
       /\ FlashStep(IF fl.ret # "ESP_OK" THEN [fl EXCEPT !.pc = "wb_cleanup"]
                    ELSE BufferNext(Advance(fl, 4)),
                    nvmc_config, flash, last_cfg, nvmc_touch)
    \/ /\ fl.pc = "wb_tail"
       /\ \E o \in MemAccessOutcomes :
            IF o = "fail"
            THEN FlashStep([fl EXCEPT !.pc = "wb_cleanup", !.ret = "ESP_FAIL"],
                           nvmc_config, flash, last_cfg, nvmc_touch + 1)
            ELSE FlashStep(StartWait(fl, "wb_tail_adv"), nvmc_config,
                           NvmcProgram(flash, nvmc_config, fl.addr,
                                       PatchBytes(ERASED_WORD, 0, fl.data, fl.size)),
                           last_cfg, nvmc_touch + 1)
    \/ /\ fl.pc = "wb_tail_adv"
       /\ FlashStep(IF fl.ret # "ESP_OK" THEN [fl EXCEPT !.pc = "wb_cleanup"]
                    ELSE [fl EXCEPT !.pc = "wb_cleanup", !.written = @ + fl.size],
                    nvmc_config, flash, last_cfg, nvmc_touch)
    \/ /\ fl.pc = "wb_cleanup"
       /\ Cleanup

\* swd_flash_erase_all()
swd_flash_erase_all ==
    \/ /\ fl.pc = "idle"
       /\ FlashStep(StartWait([fl EXCEPT !.fn = "swd_flash_erase_all", !.mem0 = flash],
                              "ea_setcfg"),
                    nvmc_config, flash, last_cfg, nvmc_touch)
    \/ /\ fl.pc = "ea_setcfg"
       /\ IF fl.ret # "ESP_OK"
          THEN FlashStep(Ret(fl, fl.ret), nvmc_config, flash, last_cfg, nvmc_touch)
          ELSE \E o \in CfgOutcomes(NVMC_CONFIG_EEN) :
                 LET r == set_nvmc_config(NVMC_CONFIG_EEN, o) IN
                 FlashStep(IF r.ret # "ESP_OK" THEN Ret(fl, r.ret)
                           ELSE [fl EXCEPT !.pc = "ea_trigger"],
                           r.config, flash, r.last, r.touch)
    \/ /\ fl.pc = "ea_trigger"
       /\ \E o \in MemAccessOutcomes :
            IF o = "fail"
            THEN \E o2 \in CfgOutcomes(NVMC_CONFIG_REN) :
                   LET r == set_nvmc_config(NVMC_CONFIG_REN, o2) IN
                   FlashStep(Ret(fl, "ESP_FAIL"), r.config, flash, r.last, r.touch + 1)
            ELSE FlashStep(StartWait(fl, "ea_ren"), nvmc_config,
                           NvmcEraseAll(flash, nvmc_config), last_cfg, nvmc_touch + 1)
    \/ /\ fl.pc = "ea_ren"
       /\ Cleanup

(***************************************************************************)
(* HEX upload (web_handlers.c) and firmware update (swd_flash.c)           *)
(*                                                                         *)
(* Addresses are uint32_t.  A 32-bit value is kept as the pair <<hi, lo>>  *)
(* of its two 16-bit halves, so that every sum and difference wraps modulo *)
(* 2^32 exactly as in the C code.  The upload layer sees the flash engine  *)
(* through the values its calls return; each call is recorded in flash_ops.*)
(***************************************************************************)
\* Records fed to one upload.
MaxRecords == 3

\* A failing erase is chosen among the first MaxEraseFail pages of a flush.
MaxEraseFail == 2

PAGE_BUFFER_SIZE == 16384
NRF52_PAGE_SIZE == 4096

\* One value of the upper linear address spans 2^16 bytes.
LINEAR_SEGMENT == 65536

Add32(a, n) ==
    LET s == a[2] + n
    IN  <<(a[1] + (s \div LINEAR_SEGMENT)) % LINEAR_SEGMENT, s % LINEAR_SEGMENT>>

Sub32(a, b) ==
    LET d == a[2] - b[2]
    IN  <<(a[1] - b[1] + (d \div LINEAR_SEGMENT)) % LINEAR_SEGMENT, d % LINEAR_SEGMENT>>

Less32(a, b) == a[1] < b[1] \/ (a[1] = b[1] /\ a[2] < b[2])

\* addr & ~(NRF52_PAGE_SIZE - 1)
PageMask(a) == <<a[1], a[2] - (a[2] % NRF52_PAGE_SIZE)>>

\* addr < NRF52_FLASH_SIZE
InFlash(a) == Less32(a, <<NRF52_FLASH_SIZE \div LINEAR_SEGMENT, NRF52_FLASH_SIZE % LINEAR_SEGMENT>>)

\* abs_addr = (upper_linear_addr << 16) | AAAA
AbsAddr(upper, aaaa) == <<upper, aaaa>>

HexUppers == {1, 65535}
HexAddrs == {0, 16, 16384, 65528}
HexByteCounts == {4, 16}

HexRecords ==
    [type : {"DATA"}, addr : HexAddrs, byte_count : HexByteCounts]
        \cup [type : {"EXT_LIN_ADDR"}, addr : HexUppers, byte_count : {2}]
        \cup [type : {"EOF"}, addr : {0}, byte_count : {0}]

\* calloc'ed upload_context_t, buffer filled with 0xFF, parser created.
IdleUp ==
    [pc |-> "idle", op |-> "none", ret |-> "none",
     buffer_start_addr |-> <<0, 0>>, buffer_data_len |-> 0, flashed_bytes |-> 0,
     error |-> FALSE, status_msg |-> "", in_progress |-> FALSE,
     response |-> "none", records |-> 0, eof_seen |-> FALSE, last_record |-> "none"]

\* Values swd_flash_write_buffer and swd_flash_verify return to their caller.
FlashReturns == {"ESP_OK", "ESP_FAIL"}

\* The pages the erase loop visits: start_page, start_page + 4096, ... while
\* page <= end_page.
ErasePages(start_page, end_page) ==
    IF Less32(end_page, start_page) THEN << >>
    ELSE [i \in 1..((Sub32(end_page, start_page)[2] \div NRF52_PAGE_SIZE) + 1) |->
             Add32(start_page, (i - 1) * NRF52_PAGE_SIZE)]

\* The erase loop: swd_flash_erase_page on each page in turn, returning at
\* the first failure.  A page outside the flash is refused by the engine;
\* fail_at names the page whose erase the target fails (0: none).
EraseLoop(pages, fail_at) ==
    LET bad  == {i \in 1..Len(pages) : i = fail_at \/ ~InFlash(pages[i])}
        stop == IF bad = {} THEN 0 ELSE CHOOSE i \in bad : \A j \in bad : i <= j
        ret(i) == IF i # stop THEN "ESP_OK"
                  ELSE IF InFlash(pages[i]) THEN "ESP_FAIL" ELSE "ESP_ERR_INVALID_ARG"
    IN  [ops |-> [i \in 1..(IF stop = 0 THEN Len(pages) ELSE stop) |->
                     [op |-> "erase", addr |-> pages[i], len |-> NRF52_PAGE_SIZE,
                      ret |-> ret(i)]],
         ret |-> IF stop = 0 THEN "ESP_OK" ELSE ret(stop)]

flush_buffer(ctx, buf, fail_at, wres) ==
    IF ctx.buffer_data_len = 0
    THEN [ctx |-> ctx, buf |-> buf, ops |-> << >>, ret |-> "ESP_OK"]
    ELSE
        LET start_page == PageMask(ctx.buffer_start_addr)
            end_addr   == Add32(ctx.buffer_start_addr, ctx.buffer_data_len - 1)
            end_page   == PageMask(end_addr)
            er   == EraseLoop(ErasePages(start_page, end_page), fail_at)
            prog == [op |-> "program", addr |-> ctx.buffer_start_addr,
                     len |-> ctx.buffer_data_len, ret |-> wres]
        IN  IF er.ret # "ESP_OK"
            THEN [ctx |-> ctx, buf |-> buf, ops |-> er.ops, ret |-> er.ret]
            ELSE IF wres # "ESP_OK"
            THEN [ctx |-> ctx, buf |-> buf, ops |-> Append(er.ops, prog), ret |-> wres]
            ELSE [ctx |-> [ctx EXCEPT !.flashed_bytes = @ + ctx.buffer_data_len,
                                      !.buffer_data_len = 0],
                  buf |-> << >>, ops |-> Append(er.ops, prog), ret |-> "ESP_OK"]

\* memcpy(page_buffer + offset, record->data, byte_count): byte k of the
\* record is the byte destined for abs_addr + k.  Only offsets inside the
\* buffer are kept here; OutOfBuffer tells the copy left the buffer.
CopyRecord(buf, offset, abs_addr, byte_count) ==
    LET inside(k) == Add32(offset, k)[1] = 0 /\ Add32(offset, k)[2] < PAGE_BUFFER_SIZE
        hit == {Add32(offset, k)[2] : k \in {j \in 0..(byte_count - 1) : inside(j)}}
        src(o) == Add32(abs_addr, Sub32(<<0, o>>, offset)[2])
    IN  [o \in (DOMAIN buf) \cup hit |-> IF o \in hit THEN src(o) ELSE buf[o]]

OutOfBuffer(offset, byte_count) ==
    \E k \in 0..(byte_count - 1) :
        Add32(offset, k)[1] # 0 \/ Add32(offset, k)[2] >= PAGE_BUFFER_SIZE

hex_flash_callback(record, abs_addr, ctx, buf, fail_at, wres) ==
    LET seen == [ctx EXCEPT !.last_record = record.type]
    IN
    CASE record.type = "DATA" ->
            LET offset_in_buffer == Sub32(abs_addr, ctx.buffer_start_addr)
                sum     == Add32(offset_in_buffer, record.byte_count)
                nofit   == \/ Less32(abs_addr, ctx.buffer_start_addr)
                           \/ Less32(<<0, PAGE_BUFFER_SIZE>>, sum)
                restart == ctx.buffer_data_len # 0 /\ nofit
                fl0     == IF restart THEN flush_buffer(seen, buf, fail_at, wres)
                           ELSE [ctx |-> seen, buf |-> buf, ops |-> << >>, ret |-> "ESP_OK"]
                offset  == IF ctx.buffer_data_len = 0 \/ restart THEN <<0, 0>>
                           ELSE offset_in_buffer
                base    == IF ctx.buffer_data_len = 0 \/ restart THEN abs_addr
                           ELSE ctx.buffer_start_addr
                new_end == Add32(offset, record.byte_count)
                len     == IF Less32(<<0, fl0.ctx.buffer_data_len>>, new_end)
                           THEN new_end[2] + new_end[1] * LINEAR_SEGMENT
                           ELSE fl0.ctx.buffer_data_len
            IN  [ctx |-> [fl0.ctx EXCEPT !.buffer_start_addr = base,
                                         !.buffer_data_len = len],
                 buf |-> CopyRecord(fl0.buf, offset, abs_addr, record.byte_count),
                 ops |-> fl0.ops,
                 oob |-> OutOfBuffer(offset, record.byte_count)]
      [] record.type = "EOF" ->
            LET fl0 == flush_buffer(seen, buf, fail_at, wres)
            IN  [ctx |-> [fl0.ctx EXCEPT !.status_msg = "Success", !.eof_seen = TRUE],
                 buf |-> fl0.buf, ops |-> fl0.ops, oob |-> FALSE]
      [] record.type = "EXT_LIN_ADDR" ->
            LET fl0 == IF ctx.buffer_data_len > 0
                       THEN flush_buffer(seen, buf, fail_at, wres)
                       ELSE [ctx |-> seen, buf |-> buf, ops |-> << >>, ret |-> "ESP_OK"]
            IN  [ctx |-> fl0.ctx, buf |-> fl0.buf, ops |-> fl0.ops, oob |-> FALSE]

\* upload_post_handler up to the receive loop: a fresh context and parser.
upload_post_handler ==
    /\ up.pc = "idle"
    /\ up' = [IdleUp EXCEPT !.pc = "recv", !.op = "upload", !.in_progress = TRUE]
    /\ page_buffer' = << >>
    /\ upper_linear_addr' = 0
    /\ flash_ops' = << >>
    /\ UNCHANGED <<dapVars, flashVars, moreVars>>

\* hex_stream_parse on the next record of the body: the parser keeps the
\* upper linear address, forms abs_addr and hands the record to the callback;
\* a record it rejects ends the upload with an error response.
hex_stream_parse ==
    \/ /\ up.pc = "recv"
       /\ up.records < MaxRecords
       /\ ~up.eof_seen
       /\ \E record \in HexRecords, fail_at \in 0..MaxEraseFail, wres \in FlashReturns,
             crash \in BOOLEAN :
            LET upper == IF record.type = "EXT_LIN_ADDR" THEN record.addr
                         ELSE upper_linear_addr
                r == hex_flash_callback(record, AbsAddr(upper, record.addr), up,
                                        page_buffer, fail_at, wres)
            IN  /\ crash => r.oob
                /\ upper_linear_addr' = upper
                /\ up' = [r.ctx EXCEPT !.records = @ + 1,
                                       !.pc = IF crash THEN "crashed" ELSE @]
                /\ page_buffer' = r.buf
                /\ flash_ops' = flash_ops \o r.ops
       /\ UNCHANGED <<dapVars, flashVars, moreVars>>
    \/ /\ up.pc = "recv"
       /\ up' = [up EXCEPT !.error = TRUE, !.status_msg = "Error: Invalid hex file",
                           !.in_progress = FALSE, !.response = "error", !.pc = "done"]
       /\ UNCHANGED <<page_buffer, upper_linear_addr, flash_ops, dapVars, flashVars, moreVars>>

\* httpd_req_recv fails: the loop is left with the error flag set.
upload_recv_failed ==
    /\ up.pc = "recv"
    /\ up' = [up EXCEPT !.error = TRUE, !.status_msg = "Error: Upload failed",
                        !.in_progress = FALSE, !.response = "error", !.pc = "done"]
    /\ UNCHANGED <<page_buffer, upper_linear_addr, flash_ops, dapVars, flashVars, moreVars>>

\* The whole body was received: the response reports the error flag.
upload_finish ==
    /\ up.pc = "recv"
    /\ up' = [up EXCEPT !.in_progress = FALSE, !.pc = "done",
                        !.response = IF up.error THEN "error" ELSE "success"]
    /\ UNCHANGED <<page_buffer, upper_linear_addr, flash_ops, dapVars, flashVars, moreVars>>

FirmwareUpdates ==
    {<<a, n>> : a \in {<<0, 4090>>, <<15, 65528>>, <<65535, 65528>>}, n \in {0, 16}}

swd_flash_update_firmware ==
    /\ up.pc = "idle"
    /\ \E update \in FirmwareUpdates, fail_at \in 0..MaxEraseFail, wres \in FlashReturns,
          verify \in BOOLEAN, vres \in FlashReturns :
         LET start_addr == update[1]
             size       == update[2]
             end_addr   == Add32(start_addr, size - 1)
             er   == EraseLoop(ErasePages(PageMask(start_addr), PageMask(end_addr)), fail_at)
             prog == [op |-> "program", addr |-> start_addr, len |-> size, ret |-> wres]
             ret  == IF er.ret # "ESP_OK" THEN er.ret
                     ELSE IF wres # "ESP_OK" THEN wres
                     ELSE IF verify THEN vres ELSE "ESP_OK"
         IN  IF size = 0
             THEN /\ up' = [IdleUp EXCEPT !.pc = "done", !.op = "firmware",
                                          !.ret = "ESP_ERR_INVALID_ARG"]
                  /\ flash_ops' = << >>
             ELSE /\ up' = [IdleUp EXCEPT !.pc = "done", !.op = "firmware", !.ret = ret]
                  /\ flash_ops' = IF er.ret # "ESP_OK" THEN er.ops ELSE Append(er.ops, prog)
    /\ page_buffer' = << >>
    /\ upper_linear_addr' = 0
    /\ UNCHANGED <<dapVars, flashVars, moreVars>>

(***************************************************************************)
(* CTRL-AP unlock (mass erase through the Nordic CTRL-AP)                  *)
(*                                                                         *)
(* The target needs un.erase_ms milliseconds from the ERASEALL write until *)
(* ERASEALLSTATUS reads 0.  Every DAP operation of the routine succeeds or *)
(* fails.  un.after counts the transactions issued once the poll loop has  *)
(* been left.                                                              *)
(***************************************************************************)
IdleUnlock ==
    [fn |-> "none", pc |-> "idle", elapsed_ms |-> 0, erase_ms |-> 0,
     ret |-> "none", after |-> 0, reads |-> << >>]

\* What a verification read delivers: the read fails, or returns 0xFFFFFFFF,
\* or returns another value.
ReadBacks == {"fail", "erased", "other"}

\* The addresses read back: four in flash and UICR.APPROTECT in
\* swd_flash_disable_approtect, three in flash and UICR.APPROTECT in
\* swd_flash_mass_erase_ctrl_ap.
VerifyReads(fn) == IF fn = "swd_flash_disable_approtect" THEN 5 ELSE 4

\* The result after the verification reads.  swd_flash_disable_approtect:
\* all_erased starts true and is cleared only by a read that succeeded with
\* another value.  swd_flash_mass_erase_ctrl_ap: the reads are only logged.
UnlockVerdict(fn, reads) ==
    IF fn = "swd_flash_disable_approtect"
          /\ \E i \in DOMAIN reads : reads[i] = "other"
    THEN "ESP_FAIL" ELSE "ESP_OK"

\* The routine, with the budget and the interval of its poll loop; alt tells
\* whether a failed ERASEALL write is tried once more at offset 0x04.
CtrlApUnlock(fn, timeout_ms, poll_interval, alt) ==
    \* AP scan (failures skipped), then the routine proper; d is the time the
    \* chip takes to erase, the last value outlasting every budget
    \/ /\ un.pc = "idle"
       /\ \E d \in {0, 3000, 60000, 200000} :
            un' = [IdleUnlock EXCEPT !.fn = fn, !.pc = "select", !.erase_ms = d]
    \* swd_dp_write(DP_SELECT, ctrl_ap_num << 24); status read and reset
    \* assertion follow, their failures ignored
    \/ /\ un.pc = "select" /\ un.fn = fn
       /\ \E o \in MemAccessOutcomes :
            un' = IF o = "ok" THEN [un EXCEPT !.pc = "trigger"]
                  ELSE [un EXCEPT !.pc = "done", !.ret = "ESP_FAIL"]
    \* swd_ap_write(CTRL_AP_ERASEALL, 1)
    \/ /\ un.pc = "trigger" /\ un.fn = fn
       /\ \E o \in MemAccessOutcomes, o2 \in MemAccessOutcomes :
            un' = IF o = "ok" \/ (alt /\ o2 = "ok") THEN [un EXCEPT !.pc = "poll"]
                  ELSE [un EXCEPT !.pc = "done", !.ret = "ESP_FAIL"]
    \* one pass of the poll loop: swd_ap_read(CTRL_AP_ERASEALLSTATUS)
    \/ /\ un.pc = "poll" /\ un.fn = fn
       /\ un.elapsed_ms < timeout_ms
       /\ \E o \in MemAccessOutcomes :
            un' = IF o = "ok" /\ un.elapsed_ms >= un.erase_ms
                  THEN [un EXCEPT !.pc = "release"]
                  ELSE [un EXCEPT !.elapsed_ms = @ + poll_interval]
    \* if (elapsed_ms >= timeout_ms) return ESP_ERR_TIMEOUT
    \/ /\ un.pc = "poll" /\ un.fn = fn
       /\ un.elapsed_ms >= timeout_ms
       /\ un' = [un EXCEPT !.pc = "done", !.ret = "ESP_ERR_TIMEOUT"]
    \* swd_ap_write(CTRL_AP_RESET, 0), failure ignored
    \/ /\ un.pc = "release" /\ un.fn = fn
       /\ un' = [un EXCEPT !.pc = "tail", !.after = @ + 1]
    \* status check, reconnect, MEM-AP selection
    \/ /\ un.pc = "tail" /\ un.fn = fn
       /\ \E r \in FlashReturns :
            un' = IF r = "ESP_OK" THEN [un EXCEPT !.pc = "verify", !.after = @ + 1]
                  ELSE [un EXCEPT !.pc = "done", !.ret = r, !.after = @ + 1]
    \* verification reads
    \/ /\ un.pc = "verify" /\ un.fn = fn
       /\ \E reads \in [1..VerifyReads(fn) -> ReadBacks] :
            un' = [un EXCEPT !.pc = "done", !.reads = reads,
                             !.ret = UnlockVerdict(fn, reads), !.after = @ + 1]

swd_flash_mass_erase_ctrl_ap ==
    /\ CtrlApUnlock("swd_flash_mass_erase_ctrl_ap", 5000, 50, FALSE)
    /\ UNCHANGED exceptUn

swd_flash_disable_approtect ==
    /\ CtrlApUnlock("swd_flash_disable_approtect", 120000, 100, TRUE)
    /\ UNCHANGED exceptUn

(***************************************************************************)
(* swd_transfer_raw, the data phase of a read, at the level of bits.  A    *)
(* 32-bit word is the pair <<upper half, lower half>> of 16-bit numbers.    *)
(***************************************************************************)
RECURSIVE BitXor(_, _)
BitXor(a, b) ==
    IF a = 0 THEN b
    ELSE IF b = 0 THEN a
    ELSE ((a + b) % 2) + 2 * BitXor(a \div 2, b \div 2)

RECURSIVE Shr(_, _)
Shr(x, k) == IF k = 0 THEN x ELSE Shr(x \div 2, k - 1)

\* parity32 without the fold of the upper half.
parity32LowHalf(w) ==
    LET x8 == BitXor(w[2], Shr(w[2], 8))
        x4 == BitXor(x8, Shr(x8, 4))
    IN Shr(27030, x4 % 16) % 2

\* parity32: x ^= x >> 16; x ^= x >> 8; x ^= x >> 4; x &= 0xF;
\* return (0x6996 >> x) & 1.  Of each fold only the lower bits reach the
\* result, and those depend on the lower half of x alone.
parity32(w) ==
    LET x16 == BitXor(w[2], w[1])
        x8 == BitXor(x16, Shr(x16, 8))
        x4 == BitXor(x8, Shr(x8, 4))
    IN Shr(27030, x4 % 16) % 2

\* The words and the caller's prior contents tried.
RawWords ==
    {<<0, 0>>, <<0, 1>>, <<1, 0>>, <<32768, 0>>, <<0, 32768>>, <<65535, 65535>>,
     <<65535, 65534>>, <<4660, 22136>>, <<57005, 48879>>, <<256, 16>>, <<7, 0>>}

IdleRaw ==
    [ack |-> "none", value |-> <<0, 0>>, parity_bit |-> 0,
     before |-> <<0, 0>>, data |-> <<0, 0>>, ret |-> "none"]

\* swd_transfer_raw(addr, APnDP, RnW = true, data): the target answers the
\* request with an ACK and, when the ACK is OK, with 32 data bits and a
\* parity bit.  value and parity_bit are what the line delivered.
swd_transfer_raw_read ==
    /\ \E ack \in {"OK", "WAIT", "FAULT", "NOACK"}, value \in RawWords,
          parity_bit \in {0, 1} :
         raw' = IF ack # "OK"
                THEN [IdleRaw EXCEPT !.ack = ack, !.ret = ack,
                                     !.before = raw.data, !.data = raw.data]
                ELSE IF parity_bit # parity32(value)
                THEN [ack |-> ack, value |-> value, parity_bit |-> parity_bit,
                      before |-> raw.data, data |-> raw.data, ret |-> "FAULT"]
                ELSE [ack |-> ack, value |-> value, parity_bit |-> parity_bit,
                      before |-> raw.data, data |-> value, ret |-> "OK"]
    /\ UNCHANGED exceptRaw

(***************************************************************************)
(* Target session: swd_connect, swd_power_up, swd_disconnect,               *)
(* swd_is_connected.  Each DP/AP access is taken as a whole with its result *)
(* (the retry loops are the subject of the DAP layer above).                *)
(***************************************************************************)
IDCODE_NRF52 == <<11168, 5239>>
ALL_ONES == <<65535, 65535>>

\* What swd_dp_read(DP_IDCODE, &idcode) may give: the return code and idcode.
IdcodeAnswers ==
    {[ret |-> "ESP_OK", idcode |-> IDCODE_NRF52], [ret |-> "ESP_OK", idcode |-> <<0, 0>>],
     [ret |-> "ESP_OK", idcode |-> ALL_ONES], [ret |-> "ESP_FAIL", idcode |-> <<0, 0>>]}

\* ret != ESP_OK || idcode == 0: the all-ones word passes.
IdcodeNonZero(a) ==
    a.ret = "ESP_OK" /\ a.idcode # <<0, 0>>

\* !(ret != ESP_OK || idcode == 0 || idcode == 0xFFFFFFFF)
IdcodePresent(a) ==
    a.ret = "ESP_OK" /\ a.idcode # <<0, 0>> /\ a.idcode # ALL_ONES

\* CTRL/STAT words the target may show while swd_power_up polls: no ACK bit,
\* CDBGPWRUPACK alone, both ACK bits, both ACK and both request bits.
StatusWords == {<<0, 0>>, <<8192, 0>>, <<40960, 0>>, <<61440, 0>>}

\* (status & 0xA0000000) == 0xA0000000
PowerAcked(status) == BitAnd(status[1], 40960) = 40960

\* select: APSEL of DP SELECT; csw: what MEM-AP CSW holds; status: the last
\* CTRL/STAT word swd_power_up read; fn, ret: the last session call and what
\* it returned; epoch: "up" since the last successful swd_connect, "down"
\* since the last swd_disconnect; valid_run: every IDCODE read of
\* swd_is_connected since the last successful swd_connect was answered with a
\* present IDCODE; answer: what the last swd_is_connected read.
IdleLink ==
    [select |-> 0, csw |-> "reset", status |-> <<0, 0>>, fn |-> "none", ret |-> "none",
     epoch |-> "none", valid_run |-> FALSE,
     answer |-> [ret |-> "none", idcode |-> <<0, 0>>]]

\* swd_power_up: clear errors, request power, poll CTRL/STAT up to 100 times.
\* w: result of the CTRL/STAT write; r: whether every CTRL/STAT read went
\* through; p: the first word with both ACK bits, or the word of the 100th poll.
swd_power_up(w, r, p) ==
    IF w # "ok" \/ r # "ok" THEN [ret |-> "ESP_FAIL", status |-> lk.status]
    ELSE IF PowerAcked(p) THEN [ret |-> "ESP_OK", status |-> p]
    ELSE [ret |-> "ESP_ERR_TIMEOUT", status |-> p]

swd_connect ==
    /\ \E a1 \in IdcodeAnswers, a2 \in IdcodeAnswers, w \in MemAccessOutcomes,
          r \in MemAccessOutcomes, p \in StatusWords :
         IF ~initialized
         THEN /\ lk' = [lk EXCEPT !.fn = "swd_connect", !.ret = "ESP_ERR_INVALID_STATE"]
              /\ UNCHANGED connected
         ELSE IF ~IdcodePresent(a1) /\ ~IdcodePresent(a2)
         THEN /\ lk' = [lk EXCEPT !.fn = "swd_connect", !.ret = "ESP_FAIL"]
              /\ UNCHANGED connected
         ELSE LET pw == swd_power_up(w, r, p) IN
              IF pw.ret # "ESP_OK"
              THEN /\ lk' = [lk EXCEPT !.fn = "swd_connect", !.ret = pw.ret,
                                        !.status = pw.status]
                   /\ UNCHANGED connected
              ELSE /\ lk' = [lk EXCEPT !.fn = "swd_connect", !.ret = "ESP_OK",
                                        !.status = pw.status, !.epoch = "up",
                                        !.valid_run = TRUE]
                   /\ connected' = TRUE
    /\ UNCHANGED <<initialized, exceptLink>>

swd_disconnect ==
    /\ IF ~initialized
       THEN /\ lk' = [lk EXCEPT !.fn = "swd_disconnect", !.ret = "ESP_ERR_INVALID_STATE"]
            /\ UNCHANGED connected
       ELSE /\ lk' = [lk EXCEPT !.fn = "swd_disconnect", !.ret = "ESP_OK",
                                 !.epoch = "down", !.valid_run = FALSE]
            /\ connected' = FALSE
    /\ UNCHANGED <<initialized, exceptLink>>

swd_is_connected ==
    /\ \E a \in IdcodeAnswers :
         IF ~connected
         THEN /\ lk' = [lk EXCEPT !.fn = "swd_is_connected", !.ret = "false",
                                   !.answer = IdleLink.answer]
              /\ UNCHANGED connected
         ELSE /\ connected' = IdcodePresent(a)
              /\ lk' = [lk EXCEPT !.fn = "swd_is_connected",
                                   !.ret = IF IdcodePresent(a) THEN "true" ELSE "false",
                                   !.answer = a,
                                   !.valid_run = @ /\ a.ret = "ESP_OK"
                                                 /\ a.idcode \notin {<<0, 0>>, ALL_ONES}]
    /\ UNCHANGED <<initialized, exceptLink>>

\* swd_dp_write(DP_SELECT, ap << 24) as the CTRL-AP unlock issues it.
SelectAp ==
    /\ initialized
    /\ \E ap \in {0, 1}, o \in MemAccessOutcomes :
         lk' = [lk EXCEPT !.fn = "swd_dp_write", !.ret = IF o = "ok" THEN "ESP_OK" ELSE "ESP_FAIL",
                          !.select = IF o = "ok" THEN ap ELSE @]
    /\ UNCHANGED <<initialized, connected, exceptLink>>

\* swd_mem_init: select MEM-AP 0 and set CSW to 32-bit, auto-increment.
swd_mem_init ==
    /\ initialized
    /\ \E o \in MemAccessOutcomes :
         lk' = IF o = "ok"
               THEN [lk EXCEPT !.fn = "swd_mem_init", !.ret = "ESP_OK",
                               !.select = 0, !.csw = "word_autoinc"]
               ELSE [lk EXCEPT !.fn = "swd_mem_init", !.ret = "ESP_FAIL"]
    /\ UNCHANGED <<initialized, connected, exceptLink>>

(***************************************************************************)
(* BLE central: ble_proxy_connect, ble_proxy_disconnect and the GAP/GATT    *)
(* callbacks of ble_connection.c.  ble_proxy_connect blocks in              *)
(* vTaskDelay(100 ms) between its state check and its state change, so a    *)
(* call is two steps; the callbacks run in the BLE host task and            *)
(* ble_proxy_disconnect does not block, so each is one step.  The host      *)
(* stack is the environment: it accepts or refuses ble_gap_connect and      *)
(* ble_gap_terminate and delivers the events.                               *)
(***************************************************************************)
BLE_HS_CONN_HANDLE_NONE == 65535

\* The tasks that may call ble_proxy_connect, and the handles the host uses.
Tasks == {"t1", "t2"}
ConnHandles == {0, 1}

\* uart = (uart_ctx_t){.conn_handle = h}
UartCtx(h) ==
    [conn_handle |-> h, tx_val |-> 0, rx_val |-> 0, tx_cccd |-> 0,
     encrypted |-> FALSE, notify_enabled |-> FALSE]

IdleBle ==
    [state |-> "IDLE", conn_handle |-> BLE_HS_CONN_HANDLE_NONE, s_state |-> "PROXY_IDLE",
     uart |-> UartCtx(BLE_HS_CONN_HANDLE_NONE), tcp |-> FALSE]

\* What is recorded of the step just taken: the call or event, the state it
\* found, the result a call returned, whether it changed ble or host, the
\* number of ble_gap_connect calls it made and whether one of them was made
\* with an attempt or connection outstanding, whether notifications were on.
Step(event, ret, changed, issued, overlap) ==
    [event |-> event, from |-> ble.state, ret |-> ret, changed |-> changed,
     issued |-> issued, overlap |-> overlap, had_gatt |-> ble.uart.notify_enabled]

\* An attempt or a connection is outstanding at the host.
Outstanding(h) == h.attempt \/ h.conns # {}

\* What ble_gap_connect may return: BLE_HS_EALREADY while a connect procedure
\* runs, an error when no connection slot is free, otherwise 0 or an error.
GapConnectResults(h) ==
    IF h.attempt THEN {"BLE_HS_EALREADY"}
    ELSE IF h.conns = ConnHandles THEN {"BLE_HS_ENOMEM"}
    ELSE {"0", "BLE_HS_ENOTCONN", "BLE_HS_EINVAL"}

\* What ble_gap_terminate may return for a handle.
GapTerminateResults(h, handle) ==
    IF handle \notin h.conns THEN {"BLE_HS_ENOTCONN"}
    ELSE IF handle \in h.terminating THEN {"BLE_HS_EALREADY"}
    ELSE {"0", "BLE_HS_EUNKNOWN"}

\* The check lets a call pass unless a connection is established.
ConnectRefusedWhenConnected(state) == state = "CONNECTED"

\* if (current_conn.state != BLE_STATE_IDLE) return ESP_ERR_INVALID_STATE
ConnectRefused(state) == state # "IDLE"

ble_proxy_connect ==
    /\ \E t \in Tasks :
         \/ \* entry: the state check, ble_gap_disc_cancel, vTaskDelay
            /\ callers[t] = "idle"
            /\ callers' = [callers EXCEPT ![t] =
                             IF ConnectRefused(ble.state) THEN "idle" ELSE "delay"]
            /\ UNCHANGED <<ble, host>>
            /\ bh' = Step("ble_proxy_connect",
                          IF ConnectRefused(ble.state) THEN "ESP_ERR_INVALID_STATE"
                          ELSE "running",
                          <<ble', host'>> # <<ble, host>>, 0, FALSE)
         \/ \* after the delay: state change, ble_gap_connect, a second
            \* ble_gap_connect with the public address type on ENOTCONN
            /\ callers[t] = "delay"
            /\ callers' = [callers EXCEPT ![t] = "idle"]
            /\ \E rc \in GapConnectResults(host) :
                 LET retry == rc = "BLE_HS_ENOTCONN" IN
                 \E rc2 \in GapConnectResults(host) :
                    LET ok == rc = "0" \/ (retry /\ rc2 = "0") IN
                    /\ host' = [host EXCEPT !.attempt = @ \/ ok]
                    /\ ble' = [ble EXCEPT
                                 !.state = IF ok THEN "CONNECTING" ELSE "IDLE",
                                 !.s_state = "PROXY_CONNECTING",
                                 !.uart = UartCtx(BLE_HS_CONN_HANDLE_NONE)]
                    /\ bh' = Step("ble_proxy_connect: resumed",
                                  IF ok THEN "ESP_OK" ELSE "ESP_FAIL", TRUE,
                                  IF retry THEN 2 ELSE 1, Outstanding(host))
    /\ UNCHANGED exceptBle

ble_proxy_disconnect ==
    /\ \E arg \in ConnHandles \cup {BLE_HS_CONN_HANDLE_NONE} :
         LET conn_handle == IF arg = BLE_HS_CONN_HANDLE_NONE THEN ble.conn_handle ELSE arg IN
         IF conn_handle = BLE_HS_CONN_HANDLE_NONE
         THEN /\ UNCHANGED <<ble, host>>
              /\ bh' = Step("ble_proxy_disconnect", "ESP_ERR_INVALID_STATE", FALSE, 0, FALSE)
         ELSE \E rc \in GapTerminateResults(host, conn_handle) :
                /\ ble' = [ble EXCEPT !.state = "DISCONNECTING"]
                /\ host' = IF rc = "0" THEN [host EXCEPT !.terminating = @ \cup {conn_handle}]
                           ELSE host
                /\ bh' = Step("ble_proxy_disconnect",
                              IF rc \in {"0", "BLE_HS_EALREADY"} THEN "ESP_OK" ELSE "ESP_FAIL",
                              TRUE, 0, FALSE)
    /\ UNCHANGED <<callers, exceptBle>>

\* BLE_GAP_EVENT_DISCONNECT with the GATT context left as it is.
DisconnectKeepsGatt(b) ==
    [b EXCEPT !.state = "IDLE", !.conn_handle = BLE_HS_CONN_HANDLE_NONE,
              !.s_state = "PROXY_IDLE", !.tcp = FALSE]

\* BLE_GAP_EVENT_DISCONNECT: stop_tcp_proxy(), then the reset of the state;
\* uart = (uart_ctx_t){0}
DisconnectReset(b) ==
    [b EXCEPT !.state = "IDLE", !.conn_handle = BLE_HS_CONN_HANDLE_NONE,
              !.s_state = "PROXY_IDLE", !.tcp = FALSE, !.uart = UartCtx(0)]

ble_proxy_gap_connect_event ==
    /\ \/ \* BLE_GAP_EVENT_CONNECT, status 0: the host gives the lowest free handle
          /\ host.attempt
          /\ LET h == IF 0 \in host.conns THEN 1 ELSE 0 IN
             /\ host' = [host EXCEPT !.attempt = FALSE, !.conns = @ \cup {h}]
             /\ ble' = [ble EXCEPT !.state = "CONNECTED", !.conn_handle = h,
                                   !.uart = UartCtx(h)]
          /\ bh' = Step("CONNECT", "0", TRUE, 0, FALSE)
       \/ \* BLE_GAP_EVENT_CONNECT, status != 0
          /\ host.attempt
          /\ host' = [host EXCEPT !.attempt = FALSE]
          /\ ble' = [ble EXCEPT !.state = "IDLE",
                                !.conn_handle = BLE_HS_CONN_HANDLE_NONE,
                                !.s_state = "PROXY_IDLE",
                                !.uart = UartCtx(BLE_HS_CONN_HANDLE_NONE)]
          /\ bh' = Step("CONNECT", "failed", TRUE, 0, FALSE)
       \/ \* BLE_GAP_EVENT_DISCONNECT
          /\ \E h \in host.conns :
               host' = [host EXCEPT !.conns = @ \ {h}, !.terminating = @ \ {h}]
          /\ ble' = DisconnectReset(ble)
          /\ bh' = Step("DISCONNECT", "0", TRUE, 0, FALSE)
       \/ \* BLE_GAP_EVENT_ENC_CHANGE
          /\ host.conns # {}
          /\ \E status \in {0, 1} :
               /\ ble' = IF status = 0 THEN [ble EXCEPT !.uart.encrypted = TRUE] ELSE ble
               /\ bh' = Step("ENC_CHANGE", IF status = 0 THEN "0" ELSE "failed",
                             TRUE, 0, FALSE)
          /\ UNCHANGED host
    /\ UNCHANGED <<callers, exceptBle>>

\* A characteristic with NOTIFY/INDICATE (tx) or WRITE/WRITE_NO_RSP (rx), or
\* a discovery error, which is logged.
on_disc_chr ==
    /\ host.conns # {}
    /\ \/ /\ \E tx \in BOOLEAN, rx \in BOOLEAN :
               ble' = [ble EXCEPT !.uart.tx_val = IF tx THEN 18 ELSE @,
                                  !.uart.rx_val = IF rx THEN 16 ELSE @]
          /\ bh' = Step("on_disc_chr", "0", TRUE, 0, FALSE)
       \/ /\ UNCHANGED ble
          /\ bh' = Step("on_disc_chr", "failed", FALSE, 0, FALSE)
    /\ UNCHANGED <<host, callers, exceptBle>>

\* A descriptor; the one with UUID 0x2902 is the CCCD.  A discovery error is
\* logged.
on_disc_dsc ==
    /\ host.conns # {}
    /\ \/ /\ \E is_cccd \in BOOLEAN :
               ble' = IF is_cccd THEN [ble EXCEPT !.uart.tx_cccd = 19] ELSE ble
          /\ bh' = Step("on_disc_dsc", "0", TRUE, 0, FALSE)
       \/ /\ UNCHANGED ble
          /\ bh' = Step("on_disc_dsc", "failed", FALSE, 0, FALSE)
    /\ UNCHANGED <<host, callers, exceptBle>>

\* Completion of the CCCD write; start_tcp_proxy() once all is known.
on_cccd_written ==
    /\ host.conns # {}
    /\ ble.uart.tx_cccd # 0
    /\ \E status \in {0, 1} :
         /\ ble' = IF status # 0 THEN ble
                   ELSE [ble EXCEPT !.uart.notify_enabled = TRUE,
                                    !.tcp = @ \/ (ble.uart.tx_val # 0 /\ ble.uart.rx_val # 0)]
         /\ bh' = Step("on_cccd_written", IF status = 0 THEN "0" ELSE "failed",
                       TRUE, 0, FALSE)
    /\ UNCHANGED <<host, callers, exceptBle>>

(***************************************************************************)
(* TCP proxy (tcp_proxy.c)                                                 *)
(*                                                                         *)
(* Two tasks run the code: the BLE host task calls start_tcp_proxy,        *)
(* stop_tcp_proxy and tcp_forward_ble_data from its event handlers, and    *)
(* tcp_task is the proxy task that start_tcp_proxy creates.  A step of a   *)
(* task runs up to the next point where it blocks or can be preempted for  *)
(* long: vTaskDelay, select, the creation of the task.                     *)
(***************************************************************************)
MAX_CLIENTS == 2
TCP_BUFFER_SIZE == 128

\* Sockets the TCP/IP stack can have open at the same time.
MaxSockets == 4

Fds == 1..MaxSockets
Slots == 1..MAX_CLIENTS

\* Lengths of the notifications delivered, of the payloads one recv returns,
\* and the ATT MTU values the host reports.
NotifyLens == {0, 1, 20}
PayloadLens == {1, 20, 21, TCP_BUFFER_SIZE}
AttMtus == {23, 64, 247, 512}

\* What send() returns to the fan-out: all bytes, fewer bytes, an error.
SendResults == {"all", "partial", "error"}

\* The statics of tcp_proxy.c after load.
IdleTcp ==
    [proxy_running |-> FALSE, tcp_task_handle |-> "NULL", server_sock |-> -1,
     clients |-> [i \in Slots |-> -1], clients_mutex |-> "NULL"]

\* No proxy task; the host task is outside the proxy's functions; no socket
\* is open; the locals of the forwarding loop.
IdleTask ==
    [pc |-> "none", host |-> "idle", open |-> {}, listening |-> {}, holder |-> "none",
     n |-> 0, offset |-> 0, mtu_size |-> 0, att_mtu |-> 0, writes |-> 0, maxchunk |-> 0,
     send |-> "idle"]

Live(cl) == {i \in Slots : cl[i] >= 0}

LowestFree(open) == CHOOSE f \in Fds \ open : \A g \in Fds \ open : f <= g

\* lock_clients: takes the mutex only if it exists.
lock_clients == tcp.clients_mutex # "NULL"

\* add_client: the first free slot takes the descriptor.
add_clientEvict(cl, fd) ==
    IF Live(cl) = Slots THEN [stored |-> TRUE, clients |-> [cl EXCEPT ![1] = fd]]
    ELSE [stored |-> TRUE,
          clients |-> [cl EXCEPT ![CHOOSE i \in Slots \ Live(cl) :
                                      \A j \in Slots \ Live(cl) : i <= j] = fd]]
add_client(cl, fd) ==
    IF Live(cl) = Slots THEN [stored |-> FALSE, clients |-> cl]
    ELSE [stored |-> TRUE,
          clients |-> [cl EXCEPT ![CHOOSE i \in Slots \ Live(cl) :
                                      \A j \in Slots \ Live(cl) : i <= j] = fd]]

\* The chunk size tcp_task computes for a payload: 20 unless the host knows
\* the connection, else the ATT MTU less 3, at most 244.
mtu_sizeWhole(found, att_mtu) ==
    IF ~found THEN 20 ELSE IF att_mtu > 244 THEN 244 ELSE att_mtu
mtu_size(found, att_mtu) ==
    IF ~found THEN 20 ELSE IF att_mtu - 3 > 244 THEN 244 ELSE att_mtu - 3

\* tcp_forward_ble_data, called by the NOTIFY_RX handler of the host task
\* with the notification copied to a 512 byte buffer.  The handler drops an
\* empty notification.  With the mutex held by the proxy task the host task
\* waits; with the mutex held by a task that no longer exists it waits for
\* ever.
tcp_forward_ble_data ==
    /\ tk.host = "idle"
    /\ \E pkt \in NotifyLens, r \in [Slots -> SendResults] :
         LET len == IF pkt > 512 THEN 512 ELSE pkt
             live == Live(tcp.clients)
             failed == {i \in live : r[i] = "error"}
         IN  IF len = 0 \/ ~tcp.proxy_running
             THEN /\ \A i \in Slots : r[i] = "all"
                  /\ th' = [event |-> "forward", len |-> len, live |-> live,
                            sends |-> [i \in Slots |-> << >>],
                            closed |-> {}, partial |-> {},
                            locked |-> TRUE, touched |-> FALSE]
                  /\ UNCHANGED <<tcp, tk>>
             ELSE IF lock_clients /\ tk.holder = "dead"
             THEN /\ \A i \in Slots : r[i] = "all"
                  /\ tk' = [tk EXCEPT !.host = "blocked"]
                  /\ th' = [event |-> "forward_blocked"]
                  /\ UNCHANGED tcp
             ELSE /\ ~(lock_clients /\ tk.holder = "task")
                  /\ \A i \in Slots \ live : r[i] = "all"
                  /\ tcp' = [tcp EXCEPT !.clients =
                                [i \in Slots |-> IF i \in failed THEN -1 ELSE @[i]]]
                  /\ tk' = [tk EXCEPT !.open = @ \ {tcp.clients[i] : i \in failed}]
                  /\ th' = [event |-> "forward", len |-> len, live |-> live,
                            sends |-> [i \in Slots |-> IF i \in live THEN <<len>>
                                                        ELSE << >>],
                            closed |-> failed,
                            partial |-> {i \in live : r[i] = "partial"},
                            locked |-> lock_clients, touched |-> TRUE]
    /\ UNCHANGED exceptTcp

\* tcp_task from its entry to the select loop: the mutex, the client array,
\* the listening socket.  Each failure path deletes the task.  bind/listen
\* fail while another socket listens on the port.
tcp_task_setup ==
    /\ tk.pc = "created"
    /\ tk.host # "crashed"
    /\ \E out \in {"ok", "mutex", "socket", "listen"} :
         IF out = "mutex"
         THEN /\ tcp' = [tcp EXCEPT !.proxy_running = FALSE, !.clients_mutex = "NULL"]
              /\ tk' = [tk EXCEPT !.pc = "none"]
              /\ th' = [event |-> "setup", out |-> out, locked |-> TRUE, touched |-> FALSE]
         ELSE IF out = "socket" \/ Fds \ tk.open = {}
         THEN /\ out = "socket"
              /\ tcp' = [tcp EXCEPT !.proxy_running = FALSE, !.clients_mutex = "set",
                                    !.clients = [i \in Slots |-> -1],
                                    !.server_sock = -1]
              /\ tk' = [tk EXCEPT !.pc = "none", !.holder = "none"]
              /\ th' = [event |-> "setup", out |-> out, locked |-> TRUE, touched |-> TRUE]
         ELSE IF out = "listen" \/ tk.listening # {}
         THEN /\ out = "listen"
              /\ tcp' = [tcp EXCEPT !.proxy_running = FALSE, !.clients_mutex = "set",
                                    !.clients = [i \in Slots |-> -1],
                                    !.server_sock = -1]
              /\ tk' = [tk EXCEPT !.pc = "none", !.holder = "none"]
              /\ th' = [event |-> "setup", out |-> out, locked |-> TRUE, touched |-> TRUE]
         ELSE /\ tcp' = [tcp EXCEPT !.proxy_running = TRUE, !.clients_mutex = "set",
                                    !.clients = [i \in Slots |-> -1],
                                    !.server_sock = LowestFree(tk.open)]
              /\ tk' = [tk EXCEPT !.pc = "loop", !.holder = "none",
                                  !.open = @ \cup {LowestFree(tk.open)},
                                  !.listening = @ \cup {LowestFree(tk.open)}]
              /\ th' = [event |-> "setup", out |-> out, locked |-> TRUE, touched |-> TRUE]
    /\ UNCHANGED exceptTcp

\* close_all_connections, then the mutex is deleted, the handle cleared and
\* the task deletes itself.
tcp_task_exit ==
    /\ tk.pc = "exit"
    /\ tk.host # "crashed"
    /\ tcp' = [tcp EXCEPT !.server_sock = -1, !.clients = [i \in Slots |-> -1],
                          !.clients_mutex = "NULL", !.tcp_task_handle = "NULL"]
    /\ tk' = [tk EXCEPT !.pc = "none", !.holder = "none",
                        !.open = @ \ ({tcp.server_sock} \cup {tcp.clients[i] : i \in Slots}),
                        !.listening = @ \ {tcp.server_sock}]
    /\ th' = [event |-> "exit", locked |-> lock_clients, touched |-> TRUE]
    /\ UNCHANGED exceptTcp

\* The head of the select loop: while (proxy_running), the descriptor sets
\* are built under the mutex, select is entered.
tcp_task_loop ==
    /\ tk.pc = "loop"
    /\ tk.host # "crashed"
    /\ tk' = [tk EXCEPT !.pc = IF tcp.proxy_running THEN "select" ELSE "exit"]
    /\ th' = [event |-> "loop", locked |-> lock_clients, touched |-> tcp.proxy_running]
    /\ UNCHANGED <<tcp, exceptTcp>>

\* select returns: time-out, error, a connection to accept, or a client that
\* is readable or in error.  A payload received starts the forwarding loop
\* with the mutex held.
tcp_task_select ==
    /\ tk.pc = "select"
    /\ tk.host # "crashed"
    /\ \/ /\ tk' = [tk EXCEPT !.pc = "loop"]
          /\ th' = [event |-> "timeout"]
          /\ UNCHANGED tcp
       \/ /\ tk' = [tk EXCEPT !.pc = "exit"]
          /\ th' = [event |-> "break"]
          /\ UNCHANGED tcp
       \/ /\ Fds \ tk.open # {}
          /\ LET fd == LowestFree(tk.open)
                 a == add_client(tcp.clients, fd)
             IN  /\ tcp' = [tcp EXCEPT !.clients = a.clients]
                 /\ tk' = [tk EXCEPT !.pc = "loop",
                                     !.open = IF a.stored THEN @ \cup {fd} ELSE @]
                 /\ th' = [event |-> "accept", fd |-> fd, before |-> tcp.clients,
                           locked |-> lock_clients, touched |-> TRUE]
       \/ \E i \in Live(tcp.clients), n \in {-1, 0} \cup PayloadLens,
             found \in BOOLEAN, att_mtu \in AttMtus :
             IF n <= 0
             THEN /\ found /\ att_mtu = 23
                  /\ tcp' = [tcp EXCEPT !.clients[i] = -1]
                  /\ tk' = [tk EXCEPT !.pc = "loop", !.open = @ \ {tcp.clients[i]}]
                  /\ th' = [event |-> "client_closed", locked |-> lock_clients,
                            touched |-> TRUE]
             ELSE /\ (~found => att_mtu = 23)
                  /\ tk' = [tk EXCEPT !.pc = "sending", !.holder = "task",
                                      !.n = n, !.offset = 0,
                                      !.mtu_size = mtu_size(found, att_mtu),
                                      !.att_mtu = IF found THEN att_mtu ELSE 0,
                                      !.writes = 0, !.maxchunk = 0]
                  /\ th' = [event |-> "recv", locked |-> lock_clients, touched |-> TRUE]
                  /\ UNCHANGED tcp
    /\ UNCHANGED exceptTcp

\* One turn of the forwarding loop: while (offset < n && ble_proxy_is_connected())
\* one chunk goes to ble_proxy_send_data; the loop ends on an error, and
\* delays 5 ms before the next chunk.  current_conn.state belongs to the host
\* task: its value at each read and the result of the send are inputs.
tcp_task_send ==
    /\ tk.pc = "sending"
    /\ tk.host # "crashed"
    /\ \E is_connected \in BOOLEAN, ret \in {"ESP_OK", "ESP_FAIL"} :
         LET chunk == Min(tk.n - tk.offset, tk.mtu_size)
             done(t, why) ==
                 /\ tk' = [t EXCEPT !.pc = "loop", !.holder = "none"]
                 /\ th' = [event |-> "forwarded", n |-> t.n, carried |-> t.offset,
                           writes |-> t.writes, maxchunk |-> t.maxchunk,
                           att_mtu |-> t.att_mtu, why |-> why]
         IN  IF ~is_connected
             THEN /\ ret = "ESP_OK"
                  /\ done(tk, "link")
             ELSE IF ret # "ESP_OK"
             THEN done([tk EXCEPT !.writes = @ + 1], "send")
             ELSE LET t == [tk EXCEPT !.offset = @ + chunk, !.writes = @ + 1,
                                      !.maxchunk = IF chunk > @ THEN chunk ELSE @]
                  IN  IF t.offset < t.n
                      THEN /\ tk' = t
                           /\ th' = [event |-> "chunk"]
                      ELSE done(t, "all")
    /\ UNCHANGED <<tcp, exceptTcp>>

\* ble_proxy_is_connected
ble_proxy_is_connected == ble.state = "CONNECTED"

\* ble_proxy_send_data as the proxy task runs it, next to the host task that
\* writes current_conn and uart: the guard reads the state and the RX handle;
\* the GATT write that follows reads uart.conn_handle and uart.rx_val again.
\* The host accepts the write only for a connection it has.
ble_proxy_send_data ==
    /\ \/ /\ tk.send = "idle"
          /\ IF ~ble_proxy_is_connected \/ ble.uart.rx_val = 0
             THEN /\ th' = [event |-> "send_data", ret |-> "ESP_ERR_INVALID_STATE",
                            issued |-> FALSE, established |-> ble_proxy_is_connected,
                            rx_val |-> ble.uart.rx_val]
                  /\ UNCHANGED tk
             ELSE /\ tk' = [tk EXCEPT !.send = "checked"]
                  /\ th' = [event |-> "send_guard"]
       \/ /\ tk.send = "checked"
          /\ \E rc \in {0, 1} :
               /\ (ble.uart.conn_handle \notin host.conns \/ ble.uart.rx_val = 0) => rc # 0
               /\ tk' = [tk EXCEPT !.send = "idle"]
               /\ th' = [event |-> "send_data",
                         ret |-> IF rc = 0 THEN "ESP_OK" ELSE "ESP_FAIL",
                         issued |-> TRUE, established |-> ble_proxy_is_connected,
                         rx_val |-> ble.uart.rx_val]
    /\ UNCHANGED <<tcp, exceptTcp>>

\* start_tcp_proxy: refused while proxy_running or the handle is set, else
\* the task is created.
start_tcp_proxy ==
    /\ tk.host = "idle"
    /\ IF tcp.proxy_running \/ tcp.tcp_task_handle # "NULL"
       THEN /\ th' = [event |-> "start", refused |-> TRUE, task |-> tk.pc # "none"]
            /\ UNCHANGED <<tcp, tk>>
       ELSE \E created \in BOOLEAN :
              /\ tcp' = [tcp EXCEPT !.tcp_task_handle = IF created THEN "set" ELSE "NULL"]
              /\ tk' = [tk EXCEPT !.pc = IF created THEN "created" ELSE @]
              /\ th' = [event |-> "start", refused |-> FALSE, task |-> tk.pc # "none"]
    /\ UNCHANGED exceptTcp

\* The proxy task cannot leave its loop: it runs with proxy_running set.
TaskStuck == tk.pc \in {"loop", "select", "sending"} /\ tcp.proxy_running

\* stop_tcp_proxy: clears proxy_running and polls the handle every 100 ms,
\* 50 times; a handle still set after that is passed to vTaskDelete.  The
\* task leaves its loop within the 1 s select time-out unless it finds
\* proxy_running set again.  vTaskDelete of a task that deleted itself is a
\* use of freed memory: it passes unnoticed or brings the system down.
stop_tcp_proxy ==
    \/ /\ tk.host = "idle"
       /\ IF ~tcp.proxy_running /\ tcp.tcp_task_handle = "NULL"
          THEN /\ th' = [event |-> "stop", returned |-> TRUE, forced |-> FALSE,
                         stale |-> FALSE]
               /\ UNCHANGED <<tcp, tk>>
          ELSE /\ tcp' = [tcp EXCEPT !.proxy_running = FALSE]
               /\ tk' = [tk EXCEPT !.host = IF tcp.tcp_task_handle = "NULL"
                                            THEN "idle" ELSE "stopping"]
               /\ th' = [event |-> "stop", returned |-> tcp.tcp_task_handle = "NULL",
                         forced |-> FALSE, stale |-> FALSE]
       /\ UNCHANGED exceptTcp
    \/ /\ tk.host = "stopping"
       /\ \/ /\ tcp.tcp_task_handle = "NULL"
             /\ tk' = [tk EXCEPT !.host = "idle"]
             /\ th' = [event |-> "stop", returned |-> TRUE, forced |-> FALSE,
                       stale |-> FALSE]
             /\ UNCHANGED tcp
          \/ /\ tcp.tcp_task_handle # "NULL"
             /\ TaskStuck
             /\ tcp' = [tcp EXCEPT !.tcp_task_handle = "NULL"]
             /\ tk' = [tk EXCEPT !.host = "idle", !.pc = "none",
                                 !.holder = IF @ = "task" THEN "dead" ELSE @]
             /\ th' = [event |-> "stop", returned |-> TRUE, forced |-> TRUE,
                       stale |-> FALSE]
          \/ /\ tcp.tcp_task_handle # "NULL"
             /\ tk.pc = "none"
             /\ \E outcome \in {"idle", "crashed"} :
                  /\ tcp' = [tcp EXCEPT !.tcp_task_handle = "NULL"]
                  /\ tk' = [tk EXCEPT !.host = outcome]
                  /\ th' = [event |-> "stop", returned |-> outcome = "idle",
                            forced |-> TRUE, stale |-> TRUE]
       /\ UNCHANGED exceptTcp

(***************************************************************************)
(* The connection phases: conn_state of the GAP event handler that keeps   *)
(* one, with the discovery callbacks (src/unnamed/part_004)                *)
(***************************************************************************)
\* The uart context cleared: uart = (uart_ctx_t){0}
NoUart ==
    [tx_val |-> FALSE, rx_val |-> FALSE, tx_cccd |-> FALSE, notify_enabled |-> FALSE,
     encrypted |-> FALSE]

\* conn_state = CONN_STATE_IDLE, no connection, no attempt, proxy not
\* started.  attempt, link, discovering and writing are the host's: a connect
\* procedure is pending, a connection exists, a discovery procedure runs, the
\* CCCD write awaits its response.  acked: the CCCD write of this connection
\* was acknowledged.  trail: the values conn_state took in the last step,
\* after the value `from` it had before.
IdleConn ==
    [conn_state |-> "IDLE", uart |-> NoUart, proxy |-> FALSE,
     attempt |-> FALSE, link |-> FALSE, discovering |-> FALSE, writing |-> FALSE,
     acked |-> FALSE,
     event |-> "none", status |-> 0, from |-> "IDLE", trail |-> << >>, disc_started |-> FALSE]

ConnStep(c, event, status, trail, disc) ==
    [c EXCEPT !.conn_state = IF trail = << >> THEN @ ELSE trail[Len(trail)],
              !.event = event, !.status = status, !.from = cs.conn_state,
              !.trail = trail, !.disc_started = disc]

\* ble_proxy_connect: current_conn.state = CONNECTING, ble_gap_connect;
\* conn_state is not assigned.
GapConnectCalled ==
    /\ ~cs.attempt /\ ~cs.link
    /\ \E rc \in {0, 1} :
         cs' = ConnStep([cs EXCEPT !.attempt = (rc = 0)], "connect", rc, << >>, FALSE)
    /\ UNCHANGED exceptConn

BLE_GAP_EVENT_CONNECT ==
    /\ cs.attempt
    /\ \E status \in {0, 1} :
         cs' = IF status = 0
               THEN ConnStep([cs EXCEPT !.attempt = FALSE, !.link = TRUE, !.uart = NoUart],
                             "CONNECT", status,
                             <<"CONNECTED", "MTU_EXCHANGED", "SECURING">>, FALSE)
               ELSE ConnStep([cs EXCEPT !.attempt = FALSE], "CONNECT", status,
                             <<"IDLE">>, FALSE)
    /\ UNCHANGED exceptConn

\* The passkey is injected; conn_state is not assigned.
BLE_GAP_EVENT_PASSKEY_ACTION ==
    /\ cs.link
    /\ cs' = ConnStep(cs, "PASSKEY_ACTION", 0, << >>, FALSE)
    /\ UNCHANGED exceptConn

BLE_GAP_EVENT_DISCONNECT ==
    /\ cs.link
    /\ cs' = ConnStep([cs EXCEPT !.link = FALSE, !.uart = NoUart, !.proxy = FALSE,
                                 !.discovering = FALSE, !.writing = FALSE,
                                 !.acked = FALSE],
                      "DISCONNECT", 0, <<"IDLE">>, FALSE)
    /\ UNCHANGED exceptConn

\* status 0: ENCRYPTED, 500 ms, DISCOVERING, ble_gattc_disc_all_svcs
BLE_GAP_EVENT_ENC_CHANGE ==
    /\ cs.link
    /\ \E status \in {0, 1} :
         cs' = IF status = 0
               THEN ConnStep([cs EXCEPT !.uart.encrypted = TRUE, !.discovering = TRUE],
                             "ENC_CHANGE", status, <<"ENCRYPTED", "DISCOVERING">>, TRUE)
               ELSE ConnStep(cs, "ENC_CHANGE", status, << >>, FALSE)
    /\ UNCHANGED exceptConn

BLE_GAP_EVENT_PARING_COMPLETE ==
    /\ cs.link
    /\ \E status \in {0, 1} :
         cs' = ConnStep(cs, "PARING_COMPLETE", status,
                        IF status = 0 THEN <<"ENCRYPTED">> ELSE <<"CONNECTED">>, FALSE)
    /\ UNCHANGED exceptConn

\* cur_notify set: s_state = PROXY_RUNNING, conn_state = READY, start_tcp_proxy()
BLE_GAP_EVENT_SUBSCRIBE ==
    /\ cs.link
    /\ \E cur_notify \in BOOLEAN :
         cs' = IF cur_notify
               THEN ConnStep([cs EXCEPT !.proxy = TRUE], "SUBSCRIBE", 1, <<"READY">>, FALSE)
               ELSE ConnStep(cs, "SUBSCRIBE", 0, << >>, FALSE)
    /\ UNCHANGED exceptConn

\* on_disc_svc, on_disc_chr and on_disc_dsc up to the end of the discovery:
\* the handles found are stored; with a TX characteristic its descriptors are
\* searched, and with a CCCD found the write of {0x01, 0x00} is issued.
DiscoveryDone ==
    /\ cs.link /\ cs.discovering
    /\ \E tx \in BOOLEAN, rx \in BOOLEAN, cccd \in BOOLEAN :
         /\ cccd => tx
         /\ cs' = ConnStep([cs EXCEPT !.uart.tx_val = tx, !.uart.rx_val = rx,
                                      !.uart.tx_cccd = cccd,
                                      !.discovering = FALSE, !.writing = cccd],
                           "discovery", 0, << >>, FALSE)
    /\ UNCHANGED exceptConn

\* on_cccd_written: notify_enabled, and start_tcp_proxy() with TX and RX
\* known; conn_state is not assigned.
CccdWritten ==
    /\ cs.link /\ cs.writing
    /\ \E status \in {0, 1} :
         cs' = IF status = 0
               THEN ConnStep([cs EXCEPT !.uart.notify_enabled = TRUE, !.writing = FALSE,
                                        !.acked = TRUE,
                                        !.proxy = @ \/ (cs.uart.tx_val /\ cs.uart.rx_val)],
                             "cccd_written", status, << >>, FALSE)
               ELSE ConnStep([cs EXCEPT !.writing = FALSE], "cccd_written", status,
                             << >>, FALSE)
    /\ UNCHANGED exceptConn

(***************************************************************************)
(* The SWDIO line within swd_transfer_raw (swd_core.c).  driving is the    *)
(* pin's output enable (SWDIO_DRIVE / SWDIO_RELEASE); trace lists what the *)
(* transaction put on the wire: "T" a turnaround clock with the pin        *)
(* released, "H" bits clocked with the host driving, "R" bits sampled with *)
(* the pin released, "X" bits clocked with the wrong owner.                *)
(***************************************************************************)
\* What read_bits(3) may deliver: the three ACKs, or no ACK at all.
AckBits == {"OK", "WAIT", "FAULT", "NOACK"}

\* After swd_init: drive_phase = true, SWDIO_DRIVE() done.
IdleLine ==
    [pc |-> "idle", drive_phase |-> TRUE, driving |-> TRUE, critical |-> 0, exits |-> 0,
     request |-> 0, read |-> FALSE, ack |-> "none", ret |-> "none", trace |-> << >>]

swd_turnaroundNoFlag(l, to_write) ==
    [l EXCEPT !.driving = to_write, !.trace = Append(@, "T")]

\* SWDIO_RELEASE(); clock_pulse(); SWDIO_DRIVE() when to_write;
\* drive_phase = to_write
swd_turnaround(l, to_write) ==
    [l EXCEPT !.driving = to_write, !.drive_phase = to_write, !.trace = Append(@, "T")]

write_bits(l, count) ==
    LET l1 == IF ~l.drive_phase THEN swd_turnaround(l, TRUE) ELSE l
    IN  [l1 EXCEPT !.trace = Append(@, IF l1.driving THEN "H" ELSE "X")]

read_bits(l, count) ==
    LET l1 == IF l.drive_phase THEN swd_turnaround(l, FALSE) ELSE l
    IN  [l1 EXCEPT !.trace = Append(@, IF l1.driving THEN "X" ELSE "R")]

write_parking(l) ==
    LET l1 == IF ~l.drive_phase THEN swd_turnaround(l, TRUE) ELSE l
    IN  [l1 EXCEPT !.trace = Append(@, IF l1.driving THEN "H" ELSE "X")]

B(x) == IF x THEN 1 ELSE 0

\* request = 0x81 | ap << 1 | read << 2 | (addr & 0x0C) << 1 | parity << 5
send_request(l, addr, ap, read) ==
    LET a2 == (addr \div 4) % 2
        a3 == (addr \div 8) % 2
        parity == (B(ap) + B(read) + a2 + a3) % 2
    IN  write_bits([l EXCEPT !.request = 129 + 2 * B(ap) + 4 * B(read) + 8 * a2 + 16 * a3
                                           + 32 * parity,
                             !.read = read],
                   8)

portEXIT_CRITICAL(l) == [l EXCEPT !.critical = @ - 1, !.exits = @ + 1]

\* swd_transfer_raw(addr, ap, read, data), step by step along the wire
swd_transfer_raw_bits ==
    /\ \/ /\ ln.pc = "idle"
          /\ \E addr \in {0, 4, 8, 12}, ap \in BOOLEAN, read \in BOOLEAN :
               ln' = [send_request([ln EXCEPT !.critical = @ + 1, !.exits = 0,
                                              !.trace = << >>, !.ack = "none", !.ret = "none"],
                                   addr, ap, read)
                      EXCEPT !.pc = "ack"]
       \/ /\ ln.pc = "ack"
          /\ \E ack \in AckBits :
               LET l1 == IF ln.drive_phase THEN swd_turnaround(ln, FALSE) ELSE ln
                   l2 == read_bits(l1, 3)
               IN  ln' = [l2 EXCEPT !.ack = ack,
                                    !.pc = IF ack # "OK" THEN "dummy"
                                           ELSE IF ln.read THEN "rdata" ELSE "wdata"]
       \/ /\ ln.pc = "rdata"
          /\ ln' = [read_bits(read_bits(ln, 32), 1) EXCEPT !.pc = "rpark"]
       \/ /\ ln.pc = "rpark"
          /\ \E parity_ok \in BOOLEAN :
               ln' = [portEXIT_CRITICAL(write_parking(swd_turnaround(ln, TRUE)))
                      EXCEPT !.pc = "done",
                             !.ret = IF parity_ok THEN ln.ack ELSE "FAULT"]
       \/ /\ ln.pc = "wdata"
          /\ ln' = [write_bits(write_bits(swd_turnaround(ln, TRUE), 32), 1)
                    EXCEPT !.pc = "park"]
       \/ /\ ln.pc = "dummy"
          /\ ln' = [write_bits(swd_turnaround(ln, TRUE), 32) EXCEPT !.pc = "park"]
       \/ /\ ln.pc = "park"
          /\ ln' = [portEXIT_CRITICAL(write_parking(ln)) EXCEPT !.pc = "done",
                                                                !.ret = ln.ack]
       \/ /\ ln.pc = "done"
          /\ ln' = [ln EXCEPT !.pc = "idle"]
    /\ UNCHANGED exceptLine

\* The state after construction: SWD not initialised, no operation in
\* progress, no upload context; the target holds one of the given images with
\* NVMC CONFIG at its reset value (read-only).
InitWith(images) ==
    /\ initialized = FALSE
    /\ dap_stack = << >>
    /\ dap_result = "none"
    /\ sticky = FALSE
    /\ stale_seen = FALSE
    /\ nvmc_config = NVMC_CONFIG_REN
    /\ flash \in images
    /\ fl = IdleOp
    /\ last_cfg = "none"
    /\ nvmc_touch = 0
    /\ up = IdleUp
    /\ page_buffer = << >>
    /\ upper_linear_addr = 0
    /\ flash_ops = << >>
    /\ un = IdleUnlock
    /\ wire = IdleWire
    /\ raw = IdleRaw
    /\ connected = FALSE
    /\ lk = IdleLink
    /\ ble = IdleBle
    /\ host = [attempt |-> FALSE, conns |-> {}, terminating |-> {}]
    /\ callers = [t \in Tasks |-> "idle"]
    /\ bh = [event |-> "none", from |-> "IDLE", ret |-> "none", changed |-> FALSE,
             issued |-> 0, overlap |-> FALSE, had_gatt |-> FALSE]
    /\ tcp = IdleTcp
    /\ tk = IdleTask
    /\ th = [event |-> "none"]
    /\ cs = IdleConn
    /\ ln = IdleLine

NextFlash ==
    \/ swd_flash_erase_page
    \/ swd_flash_write_word
    \/ swd_flash_write_buffer
    \/ swd_flash_erase_all
    \/ wait_nvmc_ready

SpecFlash == InitWith(FlashImages) /\ [][NextFlash]_vars

(***************************************************************************)
(* Properties of the flash engine (SpecFlash)                              *)
(***************************************************************************)
Done(fn) == fl.fn = fn /\ fl.pc = "done"

\* No word of the pages covering [a, a+n) is programmed in mem.
PagesErased(mem, a, n) ==
    \A x \in DOMAIN mem : \A k \in 0..(n - 1) : PageBase(x) # PageBase(a + k)

\* C3: every NVMC operation restores CONFIG to REN on every exit path: once
\* it has put an erase-enable or write-enable mode into CONFIG it never
\* returns without having written CONFIG=REN afterwards.
C3_RestoresRen ==
    fl.pc = "done" => last_cfg \in {"none", "REN"}

\* C6: after a successful buffer program of b[0..n) at a, with the covering
\* pages erased before, byte a+i of the flash reads b[i] for all i < n.
C6_ProgramReadsBack ==
    (/\ Done("swd_flash_write_buffer")
     /\ fl.ret = "ESP_OK"
     /\ PagesErased(fl.mem0, fl.a0, Len(fl.d0)))
    => \A k \in 1..Len(fl.d0) : MemByte(flash, fl.a0 + k - 1) = fl.d0[k]

\* C6 witness: an unaligned prefix, an aligned word and a tail were programmed.
C6_Witness ==
    /\ Done("swd_flash_write_buffer")
    /\ fl.ret = "ESP_OK"
    /\ PagesErased(fl.mem0, fl.a0, Len(fl.d0))
    /\ ByteLane(fl.a0) = 3
    /\ Len(fl.d0) >= 6

C8_ZeroBytesSucceeds ==
    (Done("swd_flash_write_buffer") /\ Len(fl.d0) = 0)
    => (fl.ret = "ESP_OK" /\ nvmc_touch = 0)

\* C8 (amended): a buffer program of 0 bytes returns ESP_ERR_INVALID_ARG and
\* makes no NVMC access: no CONFIG write, no READY read, no flash write.
C8_ZeroBytesRejected ==
    (Done("swd_flash_write_buffer") /\ Len(fl.d0) = 0)
    => /\ fl.ret = "ESP_ERR_INVALID_ARG"
       /\ nvmc_touch = 0
       /\ last_cfg = "none"
       /\ flash = fl.mem0
       /\ nvmc_config = NVMC_CONFIG_REN

\* C8 witness: a buffer program of 0 bytes has returned.
C8_Witness ==
    Done("swd_flash_write_buffer") /\ Len(fl.d0) = 0

(***************************************************************************)
(* SpecEraseTwice: a caller erases a page and then erases again            *)
(***************************************************************************)
\* The caller's second call: the first page erase has returned; what it
\* left is kept for comparison.
\* The next step of the operation is its first erase or program write since
\* it put WEN or EEN into CONFIG.
FirstWritePending ==
    \/ fl.pc \in {"e_trigger", "ea_trigger", "ww_write"}
    \/ fl.pc \in {"wb_pre_write", "wb_body", "wb_tail"} /\ fl.written = 0

\* wait_nvmc_ready has, in this operation, read READY & 1 = 1 on two
\* consecutive reads (stable_count reached 1 with last_ready = 1).
ReadySeenStable == fl.ws >= 1 /\ fl.wl = 1

\* C34: after every change of CONFIG to WEN or EEN the flash engine observes
\* READY & 1 = 1 on two consecutive reads before the first erase or program
\* write in that mode.  Stated in its necessary form: before that first
\* write READY was seen stable at all in the operation (an observation made
\* before the mode change is let pass).
C34_ReadyBeforeFirstWrite ==
    FirstWritePending => ReadySeenStable

\* C35: in the aligned body of a buffer program READY is polled at least
\* once per 256 bytes written, for every alignment of the start: no more
\* than 64 words are written between two consecutive READY polls.
C35_PollEveryBatch ==
    fl.fn = "swd_flash_write_buffer" => fl.unpolled <= BatchWords

EraseReturned ==
    /\ Done("swd_flash_erase_page")
    /\ fl.calls = 0
    /\ FlashStep([IdleOp EXCEPT !.calls = 1,
                                !.first = [page |-> AlignToPage(fl.a0), mem |-> flash,
                                           config |-> nvmc_config]],
                 nvmc_config, flash, "none", 0)

SpecEraseTwice ==
    InitWith(FlashImages)
        /\ [][swd_flash_erase_page \/ wait_nvmc_ready \/ EraseReturned]_vars

\* The second of two page erases in succession has returned, both for the
\* same page in range.
ErasedTwice ==
    /\ Done("swd_flash_erase_page")
    /\ fl.calls = 1
    /\ fl.a0 < NRF52_FLASH_SIZE
    /\ AlignToPage(fl.a0) = fl.first.page

\* C31: erasing page p twice in succession leaves the contents of the page
\* and the NVMC mode as the first erase left them.
C31_EraseIdempotent ==
    ErasedTwice => (flash = fl.first.mem /\ nvmc_config = fl.first.config)

\* addr & ~4095 for a 32-bit address
MaskLow12(addr) == (addr \div 4096) * 4096

\* C30: a page erase at addr is the page erase at addr & ~4095: it is refused
\* exactly when that address is out of range, and else every NVMC and flash
\* access it makes and the result it returns are those of the erase at
\* addr & ~4095, the only address the operation keeps.
C30_EraseAtPageBase ==
    fl.fn = "swd_flash_erase_page" =>
        IF MaskLow12(fl.a0) >= NRF52_FLASH_SIZE
        THEN fl.pc = "done" /\ fl.ret = "ESP_ERR_INVALID_ARG" /\ flash = fl.mem0
        ELSE /\ fl.addr = MaskLow12(fl.a0)
             /\ \A x \in (DOMAIN fl.mem0) \ (DOMAIN flash) : MaskLow12(x) = MaskLow12(fl.a0)
             /\ \A x \in DOMAIN flash : x \in DOMAIN fl.mem0 /\ flash[x] = fl.mem0[x]

\* An erase called with an address inside a page that held data returned
\* ESP_OK, and the page is erased.
C30_Witness ==
    /\ fl.fn = "swd_flash_erase_page" /\ fl.pc = "done" /\ fl.ret = "ESP_OK"
    /\ fl.a0 % 4096 # 0
    /\ flash # fl.mem0
    /\ \A x \in DOMAIN flash : MaskLow12(x) # MaskLow12(fl.a0)

(***************************************************************************)
(* Specification and properties of the DAP layer (SpecDap)                 *)
(***************************************************************************)
NextDap ==
    \/ swd_init
    \/ DapCall
    \/ DapAttempt
    \/ DapExhausted

SpecDap == InitWith({EmptyMem}) /\ [][NextDap]_vars

\* A top-level swd_ap_read has returned ESP_OK.
ApReadSucceeded ==
    dap_stack = << >> /\ dap_result = "ESP_OK" /\ wire.fn = "swd_ap_read"

\* C12: swd_ap_read is synchronous.  When it returns success the caller's
\* data word holds the value of the AP register this call addressed, never a
\* result posted by an earlier AP read, and on the wire the AP read
\* transaction was followed by the RDBUFF read that delivered the data with
\* no AP transaction between the two.
C12_ApReadSynchronous ==
    ApReadSucceeded => (wire.data = wire.addr /\ wire.order = "ap-rdbuff")

\* A swd_ap_read succeeded whose AP read transaction had returned the result
\* posted by an earlier call.
C12_Witness ==
    ApReadSucceeded /\ wire.ap_data = "posted" /\ wire.data = "DRW"

SpecBle ==
    InitWith({EmptyMem})
        /\ [][ble_proxy_connect \/ ble_proxy_disconnect \/ ble_proxy_gap_connect_event
               \/ on_disc_chr \/ on_disc_dsc \/ on_cccd_written]_vars

\* C17: at most one BLE connection or connection attempt exists at any time,
\* whatever the interleaving of ble_proxy_connect calls of the tasks and BLE
\* events: ble_gap_connect is never called while an earlier attempt or an
\* established connection is outstanding.
C17_SingleConnection ==
    /\ ~bh.overlap
    /\ Cardinality(host.conns) + (IF host.attempt THEN 1 ELSE 0) <= 1

\* C18: a ble_proxy_connect entered in a state other than IDLE returns
\* ESP_ERR_INVALID_STATE, changes no connection state and calls
\* ble_gap_connect not once.
C18_ConnectRefused ==
    (bh.event = "ble_proxy_connect" /\ bh.from # "IDLE")
        => (bh.ret = "ESP_ERR_INVALID_STATE" /\ ~bh.changed /\ bh.issued = 0)

\* A call was refused in state DISCONNECTING while a connection was up.
C18_Witness ==
    /\ bh.event = "ble_proxy_connect" /\ bh.from = "DISCONNECTING"
    /\ bh.ret = "ESP_ERR_INVALID_STATE" /\ host.conns # {}

C21_FailureToIdle ==
    (bh.event \in {"ENC_CHANGE", "on_disc_chr", "on_disc_dsc", "on_cccd_written"}
        /\ bh.ret = "failed")
        => (ble.state = "IDLE" /\ ble.conn_handle = BLE_HS_CONN_HANDLE_NONE /\ ~ble.tcp)

\* C20: ble_proxy_disconnect is safe in every state and twice in a row: the
\* machine is not left in a state other than IDLE with no attempt and no
\* connection outstanding at the host, from which no event leads to IDLE and
\* ble_proxy_connect stays refused.
C20_NeverStuck ==
    ble.state # "IDLE" => Outstanding(host)

SpecLink ==
    InitWith({EmptyMem})
        /\ [][swd_init \/ swd_connect \/ swd_disconnect \/ swd_is_connected
               \/ SelectAp \/ swd_mem_init]_vars

\* C15: whenever swd_connect returns success the debug domain is powered, both
\* power-up ACK bits of CTRL/STAT having been read as set, and MEM-AP 0 is
\* selected with CSW set for 32-bit auto-incrementing access.
C15_ConnectedReady ==
    (lk.fn = "swd_connect" /\ lk.ret = "ESP_OK")
        => /\ BitAnd(lk.status[1], 32768) = 32768
           /\ BitAnd(lk.status[1], 8192) = 8192
           /\ lk.select = 0
           /\ lk.csw = "word_autoinc"

\* C16: from a successful swd_connect on, swd_is_connected returns true as
\* long as the target answers its IDCODE read with a word other than 0 and
\* 0xFFFFFFFF, and false once it does not; after swd_disconnect it returns
\* false until the next successful swd_connect.
C16_IsConnected ==
    lk.fn = "swd_is_connected"
        => /\ (lk.epoch = "up" /\ lk.valid_run) => lk.ret = "true"
           /\ (lk.answer.ret = "ESP_OK" /\ lk.answer.idcode \in {<<0, 0>>, ALL_ONES})
                  => lk.ret = "false"
           /\ lk.epoch = "down" => lk.ret = "false"

\* swd_is_connected read a present IDCODE and returned true in a session
\* opened by a successful swd_connect.
C16_Witness ==
    lk.fn = "swd_is_connected" /\ lk.ret = "true" /\ lk.epoch = "up" /\ lk.valid_run

SpecRaw == InitWith({EmptyMem}) /\ [][swd_transfer_raw_read]_vars

\* The parity of the 32 data bits, counted bit by bit: 1 when the number of
\* set bits is odd.
RECURSIVE OddBits(_)
OddBits(n) == IF n = 0 THEN 0 ELSE ((n % 2) + OddBits(n \div 2)) % 2

DataParity(w) == (OddBits(w[1]) + OddBits(w[2])) % 2

\* C13: a raw read whose ACK is OK hands the 32 data bits to the caller
\* exactly when the received parity bit equals the parity of those bits; on
\* a mismatch it reports FAULT and the caller's data word is as it was.
C13_ParityGate ==
    raw.ack = "OK"
        => IF raw.parity_bit = DataParity(raw.value)
           THEN raw.ret = "OK" /\ raw.data = raw.value
           ELSE raw.ret = "FAULT" /\ raw.data = raw.before

\* A word with an odd number of set bits, all in its upper half, arrived with
\* parity bit 0 and was refused, the caller keeping a different word.
C13_Witness ==
    /\ raw.ack = "OK" /\ raw.value = <<7, 0>> /\ raw.parity_bit = 0
    /\ raw.ret = "FAULT" /\ raw.data = <<57005, 48879>>

\* C14: a DAP operation whose read parity check fails on two attempts in a row
\* stops there and fails with a protocol error, an error other than the
\* ESP_FAIL that retry exhaustion reports.
C14_ParityTwiceStops ==
    wire.parity_run >= 2
        => (dap_stack = << >> /\ dap_result \notin {"running", "ESP_OK", "ESP_FAIL"})

\* Activations of swd_clear_errors' ABORT write that have not returned yet.
ClearNesting ==
    Cardinality({k \in DOMAIN dap_stack : dap_stack[k].via = "swd_clear_errors"})

\* C1: every DAP operation makes at most 10 attempts of its transaction, and
\* the DP ABORT write that clears a fault is itself bounded: it does not in
\* turn start another ABORT write, whatever the target answers.
C1_AbortWriteBounded ==
    /\ \A k \in DOMAIN dap_stack : dap_stack[k].retry <= DAP_RETRIES
    /\ ClearNesting <= 1

\* C2: after a transaction was answered FAULT, no later transaction (the
\* retry or the next operation) is issued with the sticky error still set:
\* the ABORT write of 0x1E has cleared it first.
C2_NoStaleSticky ==
    ~stale_seen

(***************************************************************************)
(* Specification and properties of the HEX upload (SpecUpload)             *)
(***************************************************************************)
NextUpload ==
    \/ upload_post_handler
    \/ hex_stream_parse
    \/ upload_recv_failed
    \/ upload_finish
    \/ swd_flash_update_firmware

SpecUpload == InitWith({EmptyMem}) /\ [][NextUpload]_vars

\* The pages holding a byte of [addr, addr + len), the sum taken modulo 2^32.
CoveringPages(addr, len) ==
    {PageMask(Add32(addr, k * NRF52_PAGE_SIZE)) : k \in 0..((len - 1) \div NRF52_PAGE_SIZE)}
        \cup {PageMask(Add32(addr, len - 1))}

\* C4: in a buffer flush and in a firmware update, a buffer is programmed
\* only after every page holding one of its bytes was erased successfully by
\* that same flush or update.
C4_EraseBeforeProgram ==
    \A j \in 1..Len(flash_ops) :
        flash_ops[j].op = "program" =>
            \A page \in CoveringPages(flash_ops[j].addr, flash_ops[j].len) :
                \E i \in 1..(j - 1) :
                    /\ flash_ops[i] = [op |-> "erase", addr |-> page,
                                       len |-> NRF52_PAGE_SIZE, ret |-> "ESP_OK"]
                    /\ \A m \in (i + 1)..(j - 1) : flash_ops[m].op = "erase"

\* C5: in a HEX upload a failed erase or program is the last flash operation
\* of the upload, and an upload with a failed operation never reports success.
C5_UploadAbortsOnFailure ==
    up.op = "upload" =>
        /\ \A i \in 1..Len(flash_ops) :
               flash_ops[i].ret # "ESP_OK" => i = Len(flash_ops)
        /\ (\E i \in 1..Len(flash_ops) : flash_ops[i].ret # "ESP_OK") =>
               (up.response # "success" /\ up.status_msg # "Success")

\* C9: the coalescing buffer is gap-free: each of its first buffer_data_len
\* bytes was supplied by a data record for the address buffer_start_addr plus
\* its offset.
C9_BufferGapFree ==
    up.op = "upload" =>
        Cardinality({o \in DOMAIN page_buffer :
                        /\ o < up.buffer_data_len
                        /\ page_buffer[o] = Add32(up.buffer_start_addr, o)})
            = up.buffer_data_len

\* C10: after an extended-linear-address record and after EOF the buffer is
\* empty (stated here for the uploads whose flash operations all succeeded),
\* and no programmed buffer straddles a 64 KiB linear-address boundary.
C10_FlushAtLinearBoundary ==
    up.op = "upload" =>
        /\ ( /\ \A i \in 1..Len(flash_ops) : flash_ops[i].ret = "ESP_OK"
             /\ up.last_record \in {"EXT_LIN_ADDR", "EOF"} ) => up.buffer_data_len = 0
        /\ \A j \in 1..Len(flash_ops) :
               flash_ops[j].op = "program" =>
                   Add32(flash_ops[j].addr, flash_ops[j].len - 1)[1] = flash_ops[j].addr[1]

\* The byte at address a lies in the range a program operation wrote.
Programs(o, a) ==
    o.op = "program" /\ ~Less32(a, o.addr) /\ Less32(a, Add32(o.addr, o.len))

\* The first byte of a programmed buffer, which is the first byte of a data
\* record, was erased by a later flush and not programmed again.
RecordByteLost(ops) ==
    \E i \in 1..Len(ops) :
        /\ ops[i].op = "program"
        /\ \E j \in (i + 1)..Len(ops) :
              /\ ops[j].op = "erase" /\ ops[j].addr = PageMask(ops[i].addr)
              /\ \A k \in (j + 1)..Len(ops) : ~Programs(ops[k], ops[i].addr)

\* C39: after a HEX upload whose flash operations all succeed, every byte
\* supplied by a data record reads back, for every record layout: the page
\* erases of a later flush never destroy data programmed by an earlier one.
C39_FlushKeepsEarlierData ==
    (/\ up.op = "upload" /\ up.pc = "done" /\ up.response = "success" /\ up.eof_seen
     /\ \A i \in 1..Len(flash_ops) : flash_ops[i].ret = "ESP_OK")
        => ~RecordByteLost(flash_ops)

(***************************************************************************)
(* Specification and properties of the CTRL-AP unlock (SpecUnlock)         *)
(***************************************************************************)
SpecUnlock ==
    InitWith({EmptyMem})
        /\ [][swd_flash_mass_erase_ctrl_ap \/ swd_flash_disable_approtect]_vars

\* C11: the unlock returns the timeout error only after ERASEALLSTATUS was
\* polled for the whole budget of 120 s without reading 0, and after the
\* timeout it issues no further transaction to the target.
C11_UnlockBudget ==
    (un.pc = "done" /\ un.ret = "ESP_ERR_TIMEOUT")
    => (un.elapsed_ms >= 120000 /\ un.after = 0)

\* C36: the CTRL-AP unlock reports success only if, after the reconnect and
\* the selection of MEM-AP, every sampled flash address and UICR.APPROTECT
\* were read back and each read 0xFFFFFFFF.
C36_UnlockVerified ==
    (un.pc = "done" /\ un.ret = "ESP_OK")
        => /\ Len(un.reads) = VerifyReads(un.fn)
           /\ \A i \in DOMAIN un.reads : un.reads[i] = "erased"


(***************************************************************************)
(* SpecTcp: the proxy task, the host task's calls and the notifications    *)
(***************************************************************************)
NextTcp ==
    \/ start_tcp_proxy \/ stop_tcp_proxy \/ tcp_forward_ble_data
    \/ tcp_task_setup \/ tcp_task_loop \/ tcp_task_select \/ tcp_task_send
    \/ tcp_task_exit

SpecTcp == InitWith({EmptyMem}) /\ [][NextTcp]_vars

\* C22: for every notification of length L >= 1 the proxy calls send exactly
\* once for each client live at that moment, with exactly the L bytes.
C22_FanOut ==
    (th.event = "forward" /\ th.len >= 1)
        => \A i \in Slots : th.sends[i] = IF i \in th.live THEN <<th.len>> ELSE << >>

\* C24: a client whose send accepted fewer bytes than the notification holds
\* is closed and removed from the client set.
C24_PartialSendCloses ==
    th.event = "forward"
        => \A i \in th.partial : tcp.clients[i] = -1 /\ i \in th.closed

\* The payload size of a GATT write for an ATT MTU: mtu - 3, at most 244.
WritePayload(att_mtu) == IF att_mtu - 3 > 244 THEN 244 ELSE att_mtu - 3

CeilDiv(a, b) == (a + b - 1) \div b

\* The forwarding of one received payload has ended, with the connection
\* known to the host when its MTU was read.
PayloadForwarded == th.event = "forwarded" /\ th.att_mtu # 0

ChunkedInFull ==
    /\ th.writes = CeilDiv(th.n, WritePayload(th.att_mtu))
    /\ th.maxchunk <= WritePayload(th.att_mtu)
    /\ th.carried = th.n

AcceptedWhenFull == th.event = "accept" /\ Live(th.before) = Slots

\* C25: a connection accepted while all MAX_CLIENTS slots are occupied is
\* closed in the same turn of the select loop and never stored, the clients
\* in the set are untouched, and the set never holds more than MAX_CLIENTS
\* live clients.
C25_FullSetRejects ==
    /\ AcceptedWhenFull =>
          /\ th.fd \notin tk.open
          /\ \A i \in Slots : tcp.clients[i] # th.fd /\ tcp.clients[i] = th.before[i]
          /\ tk.pc = "loop"
    /\ Cardinality(Live(tcp.clients)) <= MAX_CLIENTS
    /\ \A i, j \in Live(tcp.clients) : tcp.clients[i] = tcp.clients[j] => i = j

\* The third connection arrived while two clients were connected.
C25_Witness == AcceptedWhenFull /\ Cardinality(tk.open \ tk.listening) = MAX_CLIENTS

\* C26: every step that adds to, closes from or iterates over the client set
\* holds the client-set mutex: neither the fan-out of the host task nor the
\* proxy task touches the set while the mutex does not exist.
C26_SetUnderMutex ==
    (th.event \in {"forward", "setup", "loop", "accept", "client_closed", "recv", "exit"}
        /\ th.touched) => th.locked

\* C27: when stop_tcp_proxy returns, the proxy task has left its loop and is
\* gone, the listening socket and every client socket are closed and the
\* client-set mutex is destroyed, however the call interleaves with the
\* start-up and the loop of the task.
C27_StopCleansUp ==
    (th.event = "stop" /\ th.returned)
        => /\ tk.pc = "none"
           /\ ~tcp.proxy_running
           /\ tk.open = {}
           /\ tcp.server_sock = -1 /\ Live(tcp.clients) = {}
           /\ tcp.clients_mutex = "NULL"

\* C28: start_tcp_proxy and stop_tcp_proxy are safe in any number and order:
\* at most one listening socket exists, a proxy task exists only under the
\* handle start_tcp_proxy stored, and stop_tcp_proxy never deletes a task
\* that is already gone.
C28_StartStopSafe ==
    /\ Cardinality(tk.listening) <= 1
    /\ (tk.pc # "none" => tcp.tcp_task_handle # "NULL")
    /\ ~(th.event = "stop" /\ th.stale)
    /\ tk.host # "crashed"

(***************************************************************************)
(* SpecSend: ble_proxy_send_data of the proxy task next to the connection  *)
(* events and the characteristic discovery of the host task                *)
(***************************************************************************)
SpecSend ==
    InitWith({EmptyMem})
        /\ [][ble_proxy_connect \/ ble_proxy_gap_connect_event \/ on_disc_chr
               \/ ble_proxy_send_data]_vars

\* C29: with no connection established or the RX handle unknown at the moment
\* of the call's GATT access, ble_proxy_send_data returns an error and issues
\* no GATT write, also when the link drops while the proxy task forwards.
C29_SendGuard ==
    (th.event = "send_data" /\ (~th.established \/ th.rx_val = 0))
        => (th.ret # "ESP_OK" /\ ~th.issued)

\* C38: start_tcp_proxy refuses as 'already running' only while a proxy task
\* exists: once the task has ended, for whatever reason, proxy_running is
\* false and the handle is NULL, so that the next start creates a task.
C38_RefusedOnlyWhileTask ==
    /\ (th.event = "start" /\ th.refused) => th.task
    /\ tk.pc = "none" => (~tcp.proxy_running /\ tcp.tcp_task_handle = "NULL")

\* C40: the host task and the proxy task never block each other for ever
\* over the mutex of the client set: every acquisition is followed by a
\* release, so the mutex is never left held by a task that no longer exists,
\* and tcp_forward_ble_data never waits for it without end.
C40_MutexAlwaysReleased ==
    tk.holder # "dead" /\ tk.host # "blocked"

(***************************************************************************)
(* SpecConn: the connection phases                                         *)
(***************************************************************************)
NextConn ==
    \/ GapConnectCalled \/ BLE_GAP_EVENT_CONNECT \/ BLE_GAP_EVENT_PASSKEY_ACTION
    \/ BLE_GAP_EVENT_DISCONNECT \/ BLE_GAP_EVENT_ENC_CHANGE
    \/ BLE_GAP_EVENT_PARING_COMPLETE \/ BLE_GAP_EVENT_SUBSCRIBE
    \/ DiscoveryDone \/ CccdWritten

SpecConn == InitWith({EmptyMem}) /\ [][NextConn]_vars

\* C32: the machine is in READY, and the TCP proxy is started, only when the
\* CCCD write has been acknowledged and tx_val, rx_val and notify_enabled
\* are all set.
C32_ReadyOnlySubscribed ==
    (cs.conn_state = "READY" \/ cs.proxy)
        => (cs.acked /\ cs.uart.tx_val /\ cs.uart.rx_val /\ cs.uart.notify_enabled)

\* The edges of the state table.
TableEdges ==
    {<<"IDLE", "CONNECTING">>, <<"CONNECTING", "CONNECTED">>,
     <<"CONNECTED", "MTU_EXCHANGED">>, <<"MTU_EXCHANGED", "SECURING">>,
     <<"SECURING", "PASSKEY">>, <<"PASSKEY", "SECURING">>,
     <<"SECURING", "ENCRYPTED">>, <<"ENCRYPTED", "DISCOVERING">>,
     <<"DISCOVERING", "READY">>}

\* The changes of conn_state in the last step, in order.
Changes ==
    LET seq == <<cs.from>> \o cs.trail
    IN  {<<seq[i], seq[i + 1]>> : i \in 1..(Len(seq) - 1)}

\* C33: the connection state changes only along the edges of the state
\* table, or to IDLE on DISCONNECT, and service discovery is entered only
\* from ENCRYPTED after ENC_CHANGE with status 0.
C33_TableEdgesOnly ==
    /\ \A e \in Changes :
         \/ e[1] = e[2]
         \/ e \in TableEdges
         \/ (cs.event = "DISCONNECT" /\ e[2] = "IDLE")
    /\ cs.disc_started =>
         (cs.event = "ENC_CHANGE" /\ cs.status = 0
            /\ <<"ENCRYPTED", "DISCOVERING">> \in Changes)

(***************************************************************************)
(* SpecTurn: SWDIO ownership within raw transactions                       *)
(***************************************************************************)
SpecTurn == InitWith({EmptyMem}) /\ [][swd_transfer_raw_bits]_vars

\* The bits on either side of the turnaround at position i of the trace.
TurnsOwner(t, i) ==
    /\ i > 1 /\ t[i - 1] \in {"H", "R"}
    /\ i < Len(t) => (t[i + 1] \in {"H", "R"} /\ t[i + 1] # t[i - 1])

\* C37: within a raw transaction there is exactly one turnaround cycle at
\* each change of SWDIO ownership, never none and never two in a row;
\* drive_phase always equals the owner of the pin; every raw transaction
\* ends with the host driving and the critical section exited exactly once.
C37_Turnarounds ==
    /\ ln.drive_phase = ln.driving
    /\ \A i \in 1..Len(ln.trace) :
         /\ ln.trace[i] # "X"
         /\ ln.trace[i] = "T" => TurnsOwner(ln.trace, i)
         /\ (i < Len(ln.trace) /\ ln.trace[i] # "T" /\ ln.trace[i + 1] # "T")
               => ln.trace[i + 1] = ln.trace[i]
    /\ ln.pc = "done" => (ln.driving /\ ln.critical = 0 /\ ln.exits = 1)
    /\ ln.pc \in {"ack", "rdata", "rpark", "wdata", "dummy", "park"} => ln.critical = 1

\* A read with ACK OK has run to its end: request, turnaround, ACK and data,
\* turnaround, park.
C37_Witness ==
    /\ ln.pc = "done" /\ ln.read /\ ln.ack = "OK"
    /\ ln.trace = <<"H", "T", "R", "R", "R", "T", "H">>

TcpTypeOK ==
    /\ tcp.clients \in [Slots -> {-1} \cup Fds]
    /\ tk.open \subseteq Fds
    /\ tk.listening \subseteq tk.open

====
